---- MODULE Spec2Model ----
(***************************************************************************)
(* Request handling of the HR management backend: the Express middleware   *)
(* chain of each route (authenticate, authorize, authorizeEmployee,        *)
(* validate, handler), the route handlers and employee service functions   *)
(* as sequences of awaited database calls, and the audit log they write.   *)
(* Every awaited Prisma call is one step, so concurrent requests           *)
(* interleave between any two of a handler's database calls.               *)
(***************************************************************************)
EXTENDS Integers, Sequences, FiniteSets, TLC

\* ------------------------------------------------------------------ bounds
MaxReq == 2        \* requests issued in one behaviour
MaxFaults == 1     \* database / audit-write errors the environment injects

ReqIds == 1..MaxReq
UserIds == 1..6

VARIABLES
  db,           \* the database: one field per Prisma model, each a map id -> row
  auditLog,     \* prisma.auditLog: sequence of entries, in insertion order
  reqs,         \* the requests: id -> request record (position, locals, response)
  faultsLeft    \* errors the environment may still inject

vars == <<db, auditLog, reqs, faultsLeft>>

employee == db.employee              \* prisma.employee: id -> row
user == db.user                      \* prisma.user: id -> isActive
jobPosting == db.jobPosting          \* prisma.jobPosting: id -> row
jobApplication == db.jobApplication  \* prisma.jobApplication: id -> row
leaveBalance == db.leaveBalance      \* prisma.leaveBalance: id -> row
trainingRecord == db.trainingRecord  \* prisma.trainingRecord: id -> row
setting == db.setting                \* prisma.setting: id -> row
leavePolicy == db.leavePolicy        \* prisma.leavePolicy: id -> row
leaveRequest == db.leaveRequest      \* prisma.leaveRequest: id -> row
onboardingTask == db.onboardingTask  \* prisma.onboardingTask: id -> row
offboardingTask == db.offboardingTask  \* prisma.offboardingTask: id -> row

\* ------------------------------------------------------------------ values
Null == [null |-> TRUE]
NoUser == [id |-> 0, role |-> "NONE", employee |-> 0]
\* An optional numeric field that is not supplied, or a numeric column that
\* is null (the schemas admit only numbers >= 0).
Undefined == -1

\* The params, query and body fields the modelled routes read (0 and "" stand
\* for an absent field; ok: the whole input satisfies the route's zod schema).
NoBody == [employeeId |-> 0, email |-> 0, managerId |-> 0, employmentStatus |-> "",
           page |-> 1, limit |-> 10, key |-> 0, policyId |-> 0, year |-> 0,
           allocated |-> 0, used |-> 0, carryForward |-> 0, jobPostingId |-> 0,
           salaryMin |-> Undefined, salaryMax |-> Undefined, isCompleted |-> "undefined",
           ok |-> TRUE]

\* Role of each user account (the role column of the user row the credential resolves to).
\* Accounts 5 (MANAGER) and 6 (EMPLOYEE) have no linked employee record.
UserRole(u) ==
  CASE u = 1 -> "ADMIN" [] u = 2 -> "HR" [] u \in {3, 5} -> "MANAGER" [] OTHER -> "EMPLOYEE"

\* req.user.employee: the employee row linked to the account, 0 when there is none.
EmployeeOfUser(u) ==
  IF \E e \in DOMAIN employee : employee[e].userId = u
  THEN CHOOSE e \in DOMAIN employee : employee[e].userId = u
  ELSE 0

Principal(u) == [id |-> u, role |-> UserRole(u), employee |-> EmployeeOfUser(u)]

\* A request: its route, position in the chain and in the handler, inputs
\* (credential: 0 absent, -1 invalid, u the token of user u), the handler's
\* locals, the response, and what it has done so far (database writes, audit
\* entries, errors met).
IdleReq == [op |-> "none", stage |-> 0, pc |-> "idle", cred |-> 0, user |-> NoUser,
            id |-> 0, body |-> NoBody, existing |-> Null, scoped |-> FALSE, subs |-> {},
            out |-> {}, total |-> 0, row |-> Null, resp |-> "none", code |-> "",
            audits |-> 0, writes |-> 0, fault |-> FALSE, auditFailed |-> FALSE]

\* ------------------------------------------------------------------ routes
\* Per router: the middleware each route registers, in order, and the roles
\* it passes to authorize(...) ({} for a route that declares none).
AllRoles == {"ADMIN", "HR", "MANAGER", "EMPLOYEE"}

EmployeeOps == {"employees.list", "employees.get", "employees.post", "employees.put",
                "employees.delete"}

\* An employee router whose list route checks the role before it
\* authenticates.
EmployeeRoutes_AuthorizeFirst(op) ==
  CASE op = "employees.list" ->
         [chain |-> <<"authorize", "authenticate", "handler">>,
          roles |-> {"ADMIN", "HR", "MANAGER"}]
    [] op = "employees.get" ->
         [chain |-> <<"authenticate", "authorize", "authorizeEmployee", "validate", "handler">>,
          roles |-> AllRoles]
    [] OTHER ->
         [chain |-> <<"authenticate", "authorize", "validate", "handler">>,
          roles |-> {"ADMIN", "HR"}]

EmployeeRoutes(op) ==
  CASE op = "employees.list" ->
         [chain |-> <<"authenticate", "authorize", "handler">>,
          roles |-> {"ADMIN", "HR", "MANAGER"}]
    [] op = "employees.get" ->
         [chain |-> <<"authenticate", "authorize", "authorizeEmployee", "validate", "handler">>,
          roles |-> AllRoles]
    [] OTHER ->  \* POST /, PUT /:id, DELETE /:id
         [chain |-> <<"authenticate", "authorize", "validate", "handler">>,
          roles |-> {"ADMIN", "HR"}]

SettingOps == {"settings.list", "settings.post"}

\* A settings router that validates the input before it checks the role.
SettingRoutes_ValidateFirst(op) ==
  [chain |-> <<"authenticate", "validate", "authorize", "handler">>, roles |-> {"ADMIN"}]

SettingRoutes(op) ==
  [chain |-> <<"authenticate", "authorize", "validate", "handler">>, roles |-> {"ADMIN"}]

LeaveBalanceOps == {"leaveBalances.list", "leaveBalances.get", "leaveBalances.post",
                    "leaveBalances.put", "leaveBalances.delete"}

LeaveBalanceRoutes(op) ==
  CASE op = "leaveBalances.list" ->
         [chain |-> <<"authenticate", "authorize", "validate", "handler">>, roles |-> AllRoles]
    [] op = "leaveBalances.get" ->
         [chain |-> <<"authenticate", "authorize", "handler">>, roles |-> AllRoles]
    [] op \in {"leaveBalances.post", "leaveBalances.put"} ->
         [chain |-> <<"authenticate", "authorize", "validate", "handler">>,
          roles |-> {"ADMIN", "HR"}]
    [] OTHER ->  \* DELETE /:id
         [chain |-> <<"authenticate", "authorize", "handler">>, roles |-> {"ADMIN", "HR"}]

TrainingRecordOps == {"trainingRecords.list", "trainingRecords.get"}

TrainingRecordRoutes(op) ==
  CASE op = "trainingRecords.list" ->
         [chain |-> <<"authenticate", "authorize", "validate", "handler">>,
          roles |-> {"ADMIN", "HR", "EMPLOYEE"}]
    [] OTHER ->  \* GET /:id
         [chain |-> <<"authenticate", "authorize", "handler">>,
          roles |-> {"ADMIN", "HR", "EMPLOYEE"}]

LeavePolicyOps == {"leavePolicies.delete"}

LeavePolicyRoutes(op) ==
  [chain |-> <<"authenticate", "authorize", "handler">>, roles |-> {"ADMIN", "HR"}]

OnboardingTaskOps == {"onboardingTasks.list", "onboardingTasks.get"}

OnboardingTaskRoutes(op) ==
  CASE op = "onboardingTasks.list" ->
         [chain |-> <<"authenticate", "authorize", "validate", "handler">>,
          roles |-> {"ADMIN", "HR", "EMPLOYEE"}]
    [] OTHER ->  \* GET /:id
         [chain |-> <<"authenticate", "authorize", "handler">>,
          roles |-> {"ADMIN", "HR", "EMPLOYEE"}]

JobPostingOps == {"jobPostings.list", "jobPostings.get", "jobPostings.post", "jobPostings.put",
                  "jobPostings.delete"}

\* The list and the detail of job postings are public: no authenticate, so
\* req.user is not set when their handlers run.
JobPostingRoutes(op) ==
  CASE op = "jobPostings.list" -> [chain |-> <<"validate", "handler">>, roles |-> {}]
    [] op = "jobPostings.get" -> [chain |-> <<"handler">>, roles |-> {}]
    [] op = "jobPostings.delete" ->
         [chain |-> <<"authenticate", "authorize", "handler">>, roles |-> {"ADMIN", "HR"}]
    [] OTHER ->  \* POST /, PUT /:id
         [chain |-> <<"authenticate", "authorize", "validate", "handler">>,
          roles |-> {"ADMIN", "HR"}]

OffboardingTaskOps == {"offboardingTasks.post", "offboardingTasks.put"}

OffboardingTaskRoutes(op) ==
  [chain |-> <<"authenticate", "authorize", "validate", "handler">>, roles |-> {"ADMIN", "HR"}]

JobApplicationOps == {"jobApplications.post"}

\* POST /api/job-applications is public: validate, then the handler.
JobApplicationRoutes(op) == [chain |-> <<"validate", "handler">>, roles |-> {}]

\* The employee controller: a handler function, called with req.user resolved.
EmployeeControllerOps == {"employeeController.getEmployee", "employeeController.updateEmployee"}

EmployeeController(op) == [chain |-> <<"handler">>, roles |-> {}]

\* /api/audit-logs: the read-only listing of the audit trail for ADMIN and HR.
AuditLogOps == {"auditLogs.list"}

AuditLogRoutes(op) ==
  [chain |-> <<"authenticate", "authorize", "handler">>, roles |-> {"ADMIN", "HR"}]

Route(op) ==
  CASE op \in EmployeeOps -> EmployeeRoutes(op)
    [] op \in AuditLogOps -> AuditLogRoutes(op)
    [] op \in LeavePolicyOps -> LeavePolicyRoutes(op)
    [] op \in SettingOps -> SettingRoutes(op)
    [] op \in LeaveBalanceOps -> LeaveBalanceRoutes(op)
    [] op \in TrainingRecordOps -> TrainingRecordRoutes(op)
    [] op \in OnboardingTaskOps -> OnboardingTaskRoutes(op)
    [] op \in JobPostingOps -> JobPostingRoutes(op)
    [] op \in OffboardingTaskOps -> OffboardingTaskRoutes(op)
    [] op \in JobApplicationOps -> JobApplicationRoutes(op)
    [] OTHER -> EmployeeController(op)

Chain(op) == Route(op).chain
AllowedRoles(op) == Route(op).roles

\* The route registers middleware m.
Declares(op, m) == \E i \in DOMAIN Chain(op) : Chain(op)[i] = m

\* ------------------------------------------------------------------ helpers
Set(r, q) == reqs' = [reqs EXCEPT ![r] = q]

\* res.status(...).json(...) or next(error): the request ends with this response.
Respond(q, kind, code) == [q EXCEPT !.pc = "done", !.resp = kind, !.code = code]

\* A rejected Prisma promise reaching the handler's catch: next(error), a 500.
Throw(q) == Respond([q EXCEPT !.fault = TRUE], "ServerError", "SERVER_ERROR")

\* next(): control passes to the following middleware of the chain.
Advance(q) ==
  LET n == q.stage + 1
      m == Chain(q.op)[n]
  IN [q EXCEPT !.stage = n, !.pc = IF m = "handler" THEN "h1" ELSE m]

FaultChoice == IF faultsLeft > 0 THEN {FALSE, TRUE} ELSE {FALSE}
Spend(f) == faultsLeft' = IF f THEN faultsLeft - 1 ELSE faultsLeft

At(r, op, pc) == reqs[r].op = op /\ reqs[r].pc = pc

\* ------------------------------------------------------------------ initial state
\* Employee 1 is the manager (account 3) of employee 2 (account 4), who is
\* the manager of employee 3 (no account): 3 is two hops below 1.
InitEmployees ==
  [e \in 1..3 |->
     [employeeId |-> e, email |-> e,
      managerId |-> e - 1,
      employmentStatus |-> "ACTIVE",
      userId |-> CASE e = 1 -> 3 [] e = 2 -> 4 [] OTHER -> 0]]

\* expiresAt: null
NoExpiry == 0

\* new Date(): the time of the requests; smaller times are past, greater future.
Now == 2

\* Posting 1 is OPEN with no expiry and the salary range 1..2, posting 2 is
\* CLOSED, posting 3 is OPEN and expired, posting 4 is OPEN and expires later;
\* postings 2 to 4 have no salary bounds.
InitJobPostings ==
  [p \in 1..4 |->
     [status |-> IF p = 2 THEN "CLOSED" ELSE "OPEN",
      expiresAt |-> CASE p = 3 -> Now - 1 [] p = 4 -> Now + 1 [] OTHER -> NoExpiry,
      salaryMin |-> IF p = 1 THEN 1 ELSE Undefined,
      salaryMax |-> IF p = 1 THEN 2 ELSE Undefined]]

\* One balance per employee (policy 1); employees 2 and 3 have a training
\* record; employee 2 has a PENDING leave request under policy 1.
InitLeaveBalances ==
  [b \in 1..3 |-> [employeeId |-> b, policyId |-> 1, year |-> 2024, allocated |-> 2,
                   used |-> 0, carryForward |-> 0, remaining |-> 2]]

InitTrainingRecords == [t \in 1..2 |-> [employeeId |-> t + 1, programId |-> 1]]

\* Employees 2 and 3 each have an onboarding task.
InitOnboardingTasks == [t \in 1..2 |-> [employeeId |-> t + 1]]

\* Three leave policies; policy 1 has a PENDING request, policy 2 only a
\* REJECTED one, policy 3 an APPROVED one.
InitLeavePolicies == [p \in 1..3 |-> [isActive |-> TRUE]]

InitLeaveRequests ==
  [l \in 1..3 |-> [employeeId |-> IF l = 1 THEN 2 ELSE 3, policyId |-> l,
                    status |-> CASE l = 1 -> "PENDING" [] l = 2 -> "REJECTED" [] OTHER -> "APPROVED"]]

\* completedAt: null
NoDate == 0

\* Offboarding task 1 is open; task 2 was completed earlier.
InitOffboardingTasks ==
  [t \in 1..2 |-> [employeeId |-> 3, isCompleted |-> t = 2,
                    completedAt |-> IF t = 2 THEN Now - 1 ELSE NoDate]]

InitDb ==
  [employee |-> InitEmployees,
   user |-> [u \in UserIds |-> TRUE],
   jobPosting |-> InitJobPostings,
   jobApplication |-> <<>>,
   leaveBalance |-> InitLeaveBalances,
   trainingRecord |-> InitTrainingRecords,
   setting |-> <<>>,
   leavePolicy |-> InitLeavePolicies,
   leaveRequest |-> InitLeaveRequests,
   onboardingTask |-> InitOnboardingTasks,
   offboardingTask |-> InitOffboardingTasks]

InitCommon ==
  /\ db = InitDb
  /\ auditLog = <<>>
  /\ reqs = [r \in ReqIds |-> IdleReq]

Init == InitCommon /\ faultsLeft = MaxFaults

\* ------------------------------------------------------------------ access-control gate
\* authenticate: resolves the bearer credential into req.user, or ends with 401.
Authenticate(r) ==
  /\ reqs[r].pc = "authenticate"
  /\ LET q == reqs[r] IN
       Set(r, IF q.cred \in UserIds
              THEN Advance([q EXCEPT !.user = Principal(q.cred)])
              ELSE Respond(q, "Unauthenticated", "UNAUTHENTICATED"))
  /\ UNCHANGED <<db, auditLog, faultsLeft>>

\* authorize(...roles): 403 unless the principal's role is in the route's set.
Authorize(r) ==
  /\ reqs[r].pc = "authorize"
  /\ LET q == reqs[r] IN
       Set(r, IF q.user.role \in AllowedRoles(q.op)
              THEN Advance(q)
              ELSE Respond(q, "Forbidden", "FORBIDDEN"))
  /\ UNCHANGED <<db, auditLog, faultsLeft>>

\* The per-record scope of a principal on employee record id: ADMIN and HR
\* everything, MANAGER self and direct reports (one hop), EMPLOYEE self.
InScope(p, id) ==
  CASE p.role \in {"ADMIN", "HR"} -> TRUE
    [] p.role = "MANAGER" ->
         /\ p.employee # 0
         /\ \/ id = p.employee
            \/ id \in DOMAIN employee /\ employee[id].managerId = p.employee
    [] OTHER -> p.employee # 0 /\ id = p.employee

\* authorizeEmployee: the per-record check on req.params.id.
AuthorizeEmployee(r) ==
  /\ reqs[r].pc = "authorizeEmployee"
  /\ LET q == reqs[r] IN
       Set(r, IF InScope(q.user, q.id)
              THEN Advance(q)
              ELSE Respond(q, "Forbidden", "FORBIDDEN"))
  /\ UNCHANGED <<db, auditLog, faultsLeft>>

\* validate(schema): 400 unless params, query and body satisfy the zod schema.
Validate(r) ==
  /\ reqs[r].pc = "validate"
  /\ LET q == reqs[r] IN
       Set(r, IF q.body.ok
              THEN Advance(q)
              ELSE Respond(q, "ValidationFailed", "VALIDATION_ERROR"))
  /\ UNCHANGED <<db, auditLog, faultsLeft>>

\* ------------------------------------------------------------------ audit recorder
AuditEntry(r, q, action, resource, id, after) ==
  [req |-> r, userId |-> q.user.id, action |-> action, resource |-> resource,
   resourceId |-> id, after |-> after]

\* createAuditLog: appends the entry; a failed write is logged and swallowed.
CreateAuditLog(log, entry, failed) == IF failed THEN log ELSE Append(log, entry)

\* A handler in which a failed audit write rejects the awaited call and
\* reaches the catch block: next(error) instead of the success response.
AuditAndRespond_Propagate(r, q, action, resource, id, after, kind) ==
  \E f \in FaultChoice :
    /\ auditLog' = CreateAuditLog(auditLog, AuditEntry(r, q, action, resource, id, after), f)
    /\ Set(r, IF f THEN Throw([q EXCEPT !.auditFailed = TRUE])
              ELSE Respond([q EXCEPT !.audits = @ + 1], kind, ""))
    /\ Spend(f)

\* A recorder that keeps only the latest entry.
AuditAndRespond_Rewrite(r, q, action, resource, id, after, kind) ==
  \E f \in FaultChoice :
    /\ auditLog' = IF f THEN auditLog ELSE <<AuditEntry(r, q, action, resource, id, after)>>
    /\ Set(r, Respond([q EXCEPT !.audits = IF f THEN @ ELSE @ + 1, !.auditFailed = f], kind, ""))
    /\ Spend(f)

\* await createAuditLog(...); res.json(...): the last step of a handler.
AuditAndRespond(r, q, action, resource, id, after, kind) ==
  \E f \in FaultChoice :
    /\ auditLog' = CreateAuditLog(auditLog, AuditEntry(r, q, action, resource, id, after), f)
    /\ Set(r, Respond([q EXCEPT !.audits = IF f THEN @ ELSE @ + 1, !.auditFailed = f], kind, ""))
    /\ Spend(f)

\* ------------------------------------------------------------------ prisma.employee
ActiveSubordinates(id) ==
  {e \in DOMAIN employee : employee[e].managerId = id /\ employee[e].employmentStatus = "ACTIVE"}

DirectReports(id) == {e \in DOMAIN employee : employee[e].managerId = id}

\* The id the database gives the next created row.
NextId(table) == IF DOMAIN table = {} THEN 1
                 ELSE 1 + CHOOSE x \in DOMAIN table : \A y \in DOMAIN table : y <= x

\* create: the table with the new row under id.
Insert(table, id, row) == [x \in DOMAIN table \cup {id} |-> IF x = id THEN row ELSE table[x]]

\* The @unique columns employeeId and email: a write that would duplicate one is rejected.
UniqueOk(id, row) ==
  \A e \in DOMAIN employee \ {id} :
    employee[e].employeeId # row.employeeId /\ employee[e].email # row.email

\* skip/take over the rows of S in their order.
PageOf(S, page, limit) ==
  {x \in S : LET rank == Cardinality({y \in S : y <= x})
             IN rank > (page - 1) * limit /\ rank <= page * limit}

\* The listing of the audit trail: a page of the entries, nothing written.
AuditLogsList_Query(r) ==
  /\ At(r, "auditLogs.list", "h1")
  /\ LET q == reqs[r] IN
       \E f \in FaultChoice :
         /\ Set(r, IF f THEN Throw(q)
                   ELSE Respond([q EXCEPT !.out = PageOf(DOMAIN auditLog, q.body.page, q.body.limit),
                                          !.total = Len(auditLog)], "OK", ""))
         /\ Spend(f)
  /\ UNCHANGED <<db, auditLog>>

\* ------------------------------------------------------------------ GET /api/employees
\* Parameter processing, then the manager's subordinate lookup; an error of
\* the lookup is caught and logged and the handler goes on with no id filter.
EmployeesList_Scope(r) ==
  /\ At(r, "employees.list", "h1")
  /\ LET q == reqs[r] IN
       \E f \in FaultChoice :
         /\ f => q.body.ok /\ q.user.role = "MANAGER" /\ q.user.employee # 0
         /\ Set(r, IF ~q.body.ok
                   THEN Respond(q, "ValidationFailed", "INVALID_QUERY")
                   ELSE IF q.user.role = "MANAGER" /\ q.user.employee # 0
                   THEN IF f
                        THEN [q EXCEPT !.pc = "h2", !.fault = TRUE]
                        ELSE [q EXCEPT !.pc = "h2", !.scoped = TRUE,
                                       !.subs = DirectReports(q.user.employee) \cup {q.user.employee}]
                   ELSE [q EXCEPT !.pc = "h2"])
         /\ Spend(f)
  /\ UNCHANGED <<db, auditLog>>

\* The rows the where-clause built by the list handler selects.
ListMatches(q) ==
  {e \in DOMAIN employee :
     /\ q.body.employmentStatus # "" => employee[e].employmentStatus = q.body.employmentStatus
     /\ q.scoped => e \in q.subs}

\* Promise.all([findMany, count]) with the filters built so far.
EmployeesList_Query(r) ==
  /\ At(r, "employees.list", "h2")
  /\ LET q == reqs[r] IN
       \E f \in FaultChoice :
         /\ Set(r, IF f THEN Throw(q)
                   ELSE [q EXCEPT !.pc = "h3",
                                  !.out = PageOf(ListMatches(q), q.body.page, q.body.limit),
                                  !.total = Cardinality(ListMatches(q))])
         /\ Spend(f)
  /\ UNCHANGED <<db, auditLog>>

EmployeesList_Finish(r) ==
  /\ At(r, "employees.list", "h3")
  /\ AuditAndRespond(r, reqs[r], "READ", "employees", 0, Null, "OK")
  /\ UNCHANGED db

\* ------------------------------------------------------------------ GET /api/employees/:id
EmployeesGet_Find(r) ==
  /\ At(r, "employees.get", "h1")
  /\ LET q == reqs[r] IN
       \E f \in FaultChoice :
         /\ Set(r, IF f THEN Throw(q)
                   ELSE IF q.id \notin DOMAIN employee
                   THEN Respond(q, "NotFound", "NOT_FOUND")
                   ELSE [q EXCEPT !.pc = "h2", !.out = {q.id}, !.row = employee[q.id]])
         /\ Spend(f)
  /\ UNCHANGED <<db, auditLog>>

EmployeesGet_Finish(r) ==
  /\ At(r, "employees.get", "h2")
  /\ AuditAndRespond(r, reqs[r], "READ", "employees", reqs[r].id, Null, "OK")
  /\ UNCHANGED db

\* ------------------------------------------------------------------ POST /api/employees
EmployeesPost_FindEmployeeId(r) ==
  /\ At(r, "employees.post", "h1")
  /\ LET q == reqs[r] IN
       \E f \in FaultChoice :
         /\ Set(r, IF f THEN Throw(q)
                   ELSE IF \E e \in DOMAIN employee : employee[e].employeeId = q.body.employeeId
                   THEN Respond(q, "ValidationFailed", "DUPLICATE_EMPLOYEE_ID")
                   ELSE [q EXCEPT !.pc = "h2"])
         /\ Spend(f)
  /\ UNCHANGED <<db, auditLog>>

EmployeesPost_FindEmail(r) ==
  /\ At(r, "employees.post", "h2")
  /\ LET q == reqs[r] IN
       \E f \in FaultChoice :
         /\ Set(r, IF f THEN Throw(q)
                   ELSE IF \E e \in DOMAIN employee : employee[e].email = q.body.email
                   THEN Respond(q, "ValidationFailed", "DUPLICATE_EMAIL")
                   ELSE [q EXCEPT !.pc = IF q.body.managerId # 0 THEN "h3" ELSE "h4"])
         /\ Spend(f)
  /\ UNCHANGED <<db, auditLog>>

\* findUnique({ id: managerId, employmentStatus: 'ACTIVE' })
ActiveManager(id) == id \in DOMAIN employee /\ employee[id].employmentStatus = "ACTIVE"

EmployeesPost_FindManager(r) ==
  /\ At(r, "employees.post", "h3")
  /\ LET q == reqs[r] IN
       \E f \in FaultChoice :
         /\ Set(r, IF f THEN Throw(q)
                   ELSE IF ~ActiveManager(q.body.managerId)
                   THEN Respond(q, "ValidationFailed", "MANAGER_NOT_FOUND")
                   ELSE [q EXCEPT !.pc = "h4"])
         /\ Spend(f)
  /\ UNCHANGED <<db, auditLog>>

NewEmployeeRow(body) ==
  [employeeId |-> body.employeeId, email |-> body.email, managerId |-> body.managerId,
   employmentStatus |-> body.employmentStatus, userId |-> 0]

EmployeesPost_Create(r) ==
  /\ At(r, "employees.post", "h4")
  /\ LET q == reqs[r]
         row == NewEmployeeRow(q.body)
     IN
       \E f \in FaultChoice :
         /\ IF f \/ ~UniqueOk(0, row)
            THEN Set(r, Throw(q)) /\ UNCHANGED db
            ELSE /\ db' = [db EXCEPT !.employee = Insert(employee, NextId(employee), row)]
                 /\ Set(r, [q EXCEPT !.pc = "h5", !.id = NextId(employee), !.row = row, !.writes = @ + 1])
         /\ Spend(f)
  /\ UNCHANGED auditLog

EmployeesPost_Finish(r) ==
  /\ At(r, "employees.post", "h5")
  /\ AuditAndRespond(r, reqs[r], "CREATE", "employees", reqs[r].id, reqs[r].row, "Created")
  /\ UNCHANGED db

\* ------------------------------------------------------------------ PUT /api/employees/:id
\* After the e-mail check: the self-management guard, then the manager lookup
\* (department and position are not part of the modelled bodies).
PutAfterEmail(q) ==
  IF q.body.managerId = 0 THEN [q EXCEPT !.pc = "h4"]
  ELSE IF q.body.managerId = q.id
  THEN Respond(q, "ValidationFailed", "INVALID_MANAGER")
  ELSE [q EXCEPT !.pc = "h3"]

EmployeesPut_Find(r) ==
  /\ At(r, "employees.put", "h1")
  /\ LET q == reqs[r] IN
       \E f \in FaultChoice :
         /\ Set(r, IF f THEN Throw(q)
                   ELSE IF q.id \notin DOMAIN employee
                   THEN Respond(q, "NotFound", "NOT_FOUND")
                   ELSE LET q1 == [q EXCEPT !.existing = employee[q.id]] IN
                        IF q.body.email # 0 /\ q.body.email # employee[q.id].email
                        THEN [q1 EXCEPT !.pc = "h2"]
                        ELSE PutAfterEmail(q1))
         /\ Spend(f)
  /\ UNCHANGED <<db, auditLog>>

EmployeesPut_FindEmail(r) ==
  /\ At(r, "employees.put", "h2")
  /\ LET q == reqs[r] IN
       \E f \in FaultChoice :
         /\ Set(r, IF f THEN Throw(q)
                   ELSE IF \E e \in DOMAIN employee : employee[e].email = q.body.email
                   THEN Respond(q, "ValidationFailed", "DUPLICATE_EMAIL")
                   ELSE PutAfterEmail(q))
         /\ Spend(f)
  /\ UNCHANGED <<db, auditLog>>

EmployeesPut_FindManager(r) ==
  /\ At(r, "employees.put", "h3")
  /\ LET q == reqs[r] IN
       \E f \in FaultChoice :
         /\ Set(r, IF f THEN Throw(q)
                   ELSE IF ~ActiveManager(q.body.managerId)
                   THEN Respond(q, "ValidationFailed", "MANAGER_NOT_FOUND")
                   ELSE [q EXCEPT !.pc = "h4"])
         /\ Spend(f)
  /\ UNCHANGED <<db, auditLog>>

\* data: { ...processedData }: the supplied fields overwrite the row's.
UpdatedRow(row, body) ==
  [row EXCEPT !.email = IF body.email # 0 THEN body.email ELSE @,
              !.managerId = IF body.managerId # 0 THEN body.managerId ELSE @,
              !.employmentStatus = IF body.employmentStatus # "" THEN body.employmentStatus ELSE @]

\* An update handler that records the audit entry when it attempts the
\* update instead of after the update has returned.
EmployeesPut_Update_AuditOnAttempt(r) ==
  /\ At(r, "employees.put", "h4")
  /\ LET q == reqs[r]
         row == UpdatedRow(employee[q.id], q.body)
     IN
       \E f \in FaultChoice :
         /\ auditLog' = Append(auditLog, AuditEntry(r, q, "UPDATE", "employees", q.id, row))
         /\ IF f \/ ~UniqueOk(q.id, row)
            THEN Set(r, Throw(q)) /\ UNCHANGED db
            ELSE /\ db' = [db EXCEPT !.employee[q.id] = row]
                 /\ Set(r, [q EXCEPT !.pc = "h5", !.row = row, !.writes = @ + 1])
         /\ Spend(f)

EmployeesPut_Update(r) ==
  /\ At(r, "employees.put", "h4")
  /\ LET q == reqs[r]
         row == UpdatedRow(employee[q.id], q.body)
     IN
       \E f \in FaultChoice :
         /\ IF f \/ ~UniqueOk(q.id, row)
            THEN Set(r, Throw(q)) /\ UNCHANGED db
            ELSE /\ db' = [db EXCEPT !.employee[q.id] = row]
                 /\ Set(r, [q EXCEPT !.pc = "h5", !.row = row, !.writes = @ + 1])
         /\ Spend(f)
  /\ UNCHANGED auditLog

EmployeesPut_Finish(r) ==
  /\ At(r, "employees.put", "h5")
  /\ AuditAndRespond(r, reqs[r], "UPDATE", "employees", reqs[r].id, reqs[r].row, "OK")
  /\ UNCHANGED db

\* ------------------------------------------------------------------ DELETE /api/employees/:id
\* A delete handler whose subordinate guard is missing.
DeleteGuard_NoSubordinateCheck(q, row, subordinates) ==
  IF row.employmentStatus = "TERMINATED"
  THEN Respond(q, "ValidationFailed", "ALREADY_TERMINATED")
  ELSE [q EXCEPT !.pc = "h2"]

\* The guards of the delete handler on the row it read (existingEmployee)
\* and its ACTIVE subordinates (existingEmployee.subordinates).
DeleteGuard(q, row, subordinates) ==
  IF row.employmentStatus = "TERMINATED"
  THEN Respond(q, "ValidationFailed", "ALREADY_TERMINATED")
  ELSE IF subordinates # {}
  THEN Respond(q, "ValidationFailed", "HAS_ACTIVE_SUBORDINATES")
  ELSE [q EXCEPT !.pc = "h2"]

EmployeesDelete_Find(r) ==
  /\ At(r, "employees.delete", "h1")
  /\ LET q == reqs[r] IN
       \E f \in FaultChoice :
         /\ Set(r, IF f THEN Throw(q)
                   ELSE IF q.id \notin DOMAIN employee
                   THEN Respond(q, "NotFound", "NOT_FOUND")
                   ELSE DeleteGuard([q EXCEPT !.existing = employee[q.id],
                                              !.subs = ActiveSubordinates(q.id)],
                                    employee[q.id], ActiveSubordinates(q.id)))
         /\ Spend(f)
  /\ UNCHANGED <<db, auditLog>>

TerminatedRow(row) == [row EXCEPT !.employmentStatus = "TERMINATED"]

\* After the employee update: the linked account, if the row read has one.
DeleteAfterTerminate(q) == IF q.existing.userId # 0 THEN "h3" ELSE "h4"

\* A delete handler that writes the audit entry right after the employee
\* update, before the linked account is deactivated.
EmployeesDelete_Terminate_AuditFirst(r) ==
  /\ At(r, "employees.delete", "h2")
  /\ LET q == reqs[r] IN
       \E f \in FaultChoice :
         /\ IF f
            THEN Set(r, Throw(q)) /\ UNCHANGED <<db, auditLog>>
            ELSE /\ db' = [db EXCEPT !.employee[q.id] = TerminatedRow(@)]
                 /\ auditLog' = Append(auditLog, AuditEntry(r, q, "DELETE", "employees", q.id,
                                                            TerminatedRow(employee[q.id])))
                 /\ Set(r, [q EXCEPT !.pc = DeleteAfterTerminate(q),
                                     !.row = TerminatedRow(employee[q.id]), !.writes = @ + 1])
         /\ Spend(f)

EmployeesDelete_Terminate(r) ==
  /\ At(r, "employees.delete", "h2")
  /\ LET q == reqs[r] IN
       \E f \in FaultChoice :
         /\ IF f
            THEN Set(r, Throw(q)) /\ UNCHANGED db
            ELSE /\ db' = [db EXCEPT !.employee[q.id] = TerminatedRow(@)]
                 /\ Set(r, [q EXCEPT !.pc = DeleteAfterTerminate(q),
                                     !.row = TerminatedRow(employee[q.id]), !.writes = @ + 1])
         /\ Spend(f)
  /\ UNCHANGED auditLog

EmployeesDelete_DeactivateUser(r) ==
  /\ At(r, "employees.delete", "h3")
  /\ LET q == reqs[r] IN
       \E f \in FaultChoice :
         /\ IF f
            THEN Set(r, Throw(q)) /\ UNCHANGED db
            ELSE /\ db' = [db EXCEPT !.user[q.existing.userId] = FALSE]
                 /\ Set(r, [q EXCEPT !.pc = "h4", !.writes = @ + 1])
         /\ Spend(f)
  /\ UNCHANGED auditLog

EmployeesDelete_Finish(r) ==
  /\ At(r, "employees.delete", "h4")
  /\ AuditAndRespond(r, reqs[r], "DELETE", "employees", reqs[r].id, reqs[r].row, "OK")
  /\ UNCHANGED db

\* ------------------------------------------------------------------ /api/settings
SettingsList_Query(r) ==
  /\ At(r, "settings.list", "h1")
  /\ LET q == reqs[r] IN
       \E f \in FaultChoice :
         /\ Set(r, IF f THEN Throw(q)
                   ELSE [q EXCEPT !.pc = "h2",
                                  !.out = PageOf(DOMAIN setting, q.body.page, q.body.limit),
                                  !.total = Cardinality(DOMAIN setting)])
         /\ Spend(f)
  /\ UNCHANGED <<db, auditLog>>

SettingsList_Finish(r) ==
  /\ At(r, "settings.list", "h2")
  /\ AuditAndRespond(r, reqs[r], "READ", "settings", 0, Null, "OK")
  /\ UNCHANGED db

SettingsPost_FindKey(r) ==
  /\ At(r, "settings.post", "h1")
  /\ LET q == reqs[r] IN
       \E f \in FaultChoice :
         /\ Set(r, IF f THEN Throw(q)
                   ELSE IF \E s \in DOMAIN setting : setting[s].key = q.body.key
                   THEN Respond(q, "ValidationFailed", "VALIDATION_ERROR")
                   ELSE [q EXCEPT !.pc = "h2"])
         /\ Spend(f)
  /\ UNCHANGED <<db, auditLog>>

SettingsPost_Create(r) ==
  /\ At(r, "settings.post", "h2")
  /\ LET q == reqs[r]
         row == [key |-> q.body.key]
     IN
       \E f \in FaultChoice :
         /\ IF f
            THEN Set(r, Throw(q)) /\ UNCHANGED db
            ELSE /\ db' = [db EXCEPT !.setting = Insert(setting, NextId(setting), row)]
                 /\ Set(r, [q EXCEPT !.pc = "h3", !.id = NextId(setting), !.row = row,
                                     !.writes = @ + 1])
         /\ Spend(f)
  /\ UNCHANGED auditLog

SettingsPost_Finish(r) ==
  /\ At(r, "settings.post", "h3")
  /\ AuditAndRespond(r, reqs[r], "CREATE", "settings", reqs[r].id, reqs[r].row, "Created")
  /\ UNCHANGED db

\* ------------------------------------------------------------------ GET /api/leave-balances
\* The where-clause on employeeId (scoped: there is one; subs: the ids it
\* admits): the caller's filter, overwritten with the caller's own id for an
\* EMPLOYEE; for a MANAGER the subordinate lookup, then either the check of
\* the caller's filter against it or the `in` filter.
LeaveBalancesList_Scope(r) ==
  /\ At(r, "leaveBalances.list", "h1")
  /\ LET q == reqs[r]
         asked == q.body.employeeId
         q1 == IF asked # 0 THEN [q EXCEPT !.scoped = TRUE, !.subs = {asked}] ELSE q
         subordinateIds == DirectReports(q.user.employee) \cup {q.user.employee}
     IN
       \E f \in FaultChoice :
         /\ f => q.user.role = "MANAGER" /\ q.user.employee # 0
         /\ Set(r, IF q.user.role = "EMPLOYEE" /\ q.user.employee # 0
                   THEN [q1 EXCEPT !.pc = "h2", !.scoped = TRUE, !.subs = {q.user.employee}]
                   ELSE IF q.user.role = "MANAGER" /\ q.user.employee # 0
                   THEN IF f THEN Throw(q1)
                        ELSE IF asked # 0
                        THEN IF asked \notin subordinateIds
                             THEN Respond(q1, "Forbidden", "ACCESS_DENIED")
                             ELSE [q1 EXCEPT !.pc = "h2"]
                        ELSE [q1 EXCEPT !.pc = "h2", !.scoped = TRUE, !.subs = subordinateIds]
                   ELSE [q1 EXCEPT !.pc = "h2"])
         /\ Spend(f)
  /\ UNCHANGED <<db, auditLog>>

\* The rows of a table with an employeeId column that the where-clause selects.
OwnedMatches(table, q) ==
  {x \in DOMAIN table : q.scoped => table[x].employeeId \in q.subs}

LeaveBalancesList_Query(r) ==
  /\ At(r, "leaveBalances.list", "h2")
  /\ LET q == reqs[r] IN
       \E f \in FaultChoice :
         /\ Set(r, IF f THEN Throw(q)
                   ELSE [q EXCEPT !.pc = "h3",
                                  !.out = PageOf(OwnedMatches(leaveBalance, q), q.body.page, q.body.limit),
                                  !.total = Cardinality(OwnedMatches(leaveBalance, q))])
         /\ Spend(f)
  /\ UNCHANGED <<db, auditLog>>

LeaveBalancesList_Finish(r) ==
  /\ At(r, "leaveBalances.list", "h3")
  /\ AuditAndRespond(r, reqs[r], "READ", "leave_balances", 0, Null, "OK")
  /\ UNCHANGED db

\* ------------------------------------------------------------------ POST /api/leave-balances
LeaveBalancesPost_FindEmployee(r) ==
  /\ At(r, "leaveBalances.post", "h1")
  /\ LET q == reqs[r] IN
       \E f \in FaultChoice :
         /\ Set(r, IF f THEN Throw(q)
                   ELSE IF q.body.employeeId \notin DOMAIN employee
                   THEN Respond(q, "ValidationFailed", "VALIDATION_ERROR")
                   ELSE [q EXCEPT !.pc = "h2"])
         /\ Spend(f)
  /\ UNCHANGED <<db, auditLog>>

LeaveBalancesPost_FindPolicy(r) ==
  /\ At(r, "leaveBalances.post", "h2")
  /\ LET q == reqs[r] IN
       \E f \in FaultChoice :
         /\ Set(r, IF f THEN Throw(q)
                   ELSE IF q.body.policyId \notin DOMAIN leavePolicy
                   THEN Respond(q, "ValidationFailed", "VALIDATION_ERROR")
                   ELSE [q EXCEPT !.pc = "h3"])
         /\ Spend(f)
  /\ UNCHANGED <<db, auditLog>>

LeaveBalancesPost_FindExisting(r) ==
  /\ At(r, "leaveBalances.post", "h3")
  /\ LET q == reqs[r] IN
       \E f \in FaultChoice :
         /\ Set(r, IF f THEN Throw(q)
                   ELSE IF \E b \in DOMAIN leaveBalance :
                             /\ leaveBalance[b].employeeId = q.body.employeeId
                             /\ leaveBalance[b].policyId = q.body.policyId
                             /\ leaveBalance[b].year = q.body.year
                   THEN Respond(q, "ValidationFailed", "VALIDATION_ERROR")
                   ELSE [q EXCEPT !.pc = "h4"])
         /\ Spend(f)
  /\ UNCHANGED <<db, auditLog>>

NewLeaveBalanceRow(body) ==
  [employeeId |-> body.employeeId, policyId |-> body.policyId, year |-> body.year,
   allocated |-> body.allocated, used |-> 0, carryForward |-> body.carryForward,
   remaining |-> body.allocated + body.carryForward]

\* A balance of the same employee, policy and year is stored.
SameTriple(row) ==
  \E b \in DOMAIN leaveBalance :
    /\ leaveBalance[b].employeeId = row.employeeId
    /\ leaveBalance[b].policyId = row.policyId
    /\ leaveBalance[b].year = row.year

\* create: the handler looked for a balance of the triple with findFirst; the
\* source does not show whether the table has a unique index on it, so a
\* create that meets a stored triple is either rejected by the database or
\* stored next to it.
LeaveBalancesPost_Create(r) ==
  /\ At(r, "leaveBalances.post", "h4")
  /\ LET q == reqs[r]
         row == NewLeaveBalanceRow(q.body)
     IN
       \E f \in FaultChoice, indexed \in BOOLEAN :
         /\ indexed => SameTriple(row)
         /\ IF f \/ indexed
            THEN Set(r, Throw(q)) /\ UNCHANGED db
            ELSE /\ db' = [db EXCEPT !.leaveBalance = Insert(leaveBalance, NextId(leaveBalance), row)]
                 /\ Set(r, [q EXCEPT !.pc = "h5", !.id = NextId(leaveBalance), !.row = row,
                                     !.writes = @ + 1])
         /\ Spend(f)
  /\ UNCHANGED auditLog

LeaveBalancesPost_Finish(r) ==
  /\ At(r, "leaveBalances.post", "h5")
  /\ AuditAndRespond(r, reqs[r], "CREATE", "leave_balances", reqs[r].id, reqs[r].row, "Created")
  /\ UNCHANGED db

\* ------------------------------------------------------------------ PUT /api/leave-balances/:id
LeaveBalancesPut_Find(r) ==
  /\ At(r, "leaveBalances.put", "h1")
  /\ LET q == reqs[r] IN
       \E f \in FaultChoice :
         /\ Set(r, IF f THEN Throw(q)
                   ELSE IF q.id \notin DOMAIN leaveBalance
                   THEN Respond(q, "NotFound", "NOT_FOUND")
                   ELSE [q EXCEPT !.pc = "h2", !.existing = leaveBalance[q.id]])
         /\ Spend(f)
  /\ UNCHANGED <<db, auditLog>>

\* A recalculation that leaves the used days out.
Remaining_WithoutUsed(existing, body) ==
  LET newAllocated == IF body.allocated # Undefined THEN body.allocated ELSE existing.allocated
      newCarryForward == IF body.carryForward # Undefined THEN body.carryForward
                         ELSE existing.carryForward
  IN newAllocated + newCarryForward

\* updateData.remaining = newAllocated + newCarryForward - newUsed, each taken
\* from the body when supplied and from existingBalance otherwise.
Remaining(existing, body) ==
  LET newAllocated == IF body.allocated # Undefined THEN body.allocated ELSE existing.allocated
      newUsed == IF body.used # Undefined THEN body.used ELSE existing.used
      newCarryForward == IF body.carryForward # Undefined THEN body.carryForward
                         ELSE existing.carryForward
  IN newAllocated + newCarryForward - newUsed

\* update({ where: { id }, data: updateData }) on the stored row: the
\* supplied fields and, when any is supplied, the recalculated remaining.
UpdatedLeaveBalanceRow(row, existing, body) ==
  [row EXCEPT !.allocated = IF body.allocated # Undefined THEN body.allocated ELSE @,
              !.used = IF body.used # Undefined THEN body.used ELSE @,
              !.carryForward = IF body.carryForward # Undefined THEN body.carryForward ELSE @,
              !.remaining = IF body.allocated # Undefined \/ body.used # Undefined
                               \/ body.carryForward # Undefined
                            THEN Remaining(existing, body) ELSE @]

LeaveBalancesPut_Update(r) ==
  /\ At(r, "leaveBalances.put", "h2")
  /\ LET q == reqs[r] IN
       \E f \in FaultChoice :
         /\ IF f \/ q.id \notin DOMAIN leaveBalance
            THEN Set(r, Throw(q)) /\ UNCHANGED db
            ELSE LET row == UpdatedLeaveBalanceRow(leaveBalance[q.id], q.existing, q.body) IN
                 /\ db' = [db EXCEPT !.leaveBalance[q.id] = row]
                 /\ Set(r, [q EXCEPT !.pc = "h3", !.row = row, !.writes = @ + 1])
         /\ Spend(f)
  /\ UNCHANGED auditLog

LeaveBalancesPut_Finish(r) ==
  /\ At(r, "leaveBalances.put", "h3")
  /\ AuditAndRespond(r, reqs[r], "UPDATE", "leave_balances", reqs[r].id, reqs[r].row, "OK")
  /\ UNCHANGED db

\* ------------------------------------------------------------------ DELETE /api/leave-balances/:id
\* delete: the table without the row.
Remove(table, id) == [x \in DOMAIN table \ {id} |-> table[x]]

\* The first findUnique passes a pending promise as the value of a nested
\* filter (policyId: { equals: <promise> }); whether the client rejects
\* such an argument is not decided by the handler: both outcomes are kept.
LeaveBalancesDelete_Find(r) ==
  /\ At(r, "leaveBalances.delete", "h1")
  /\ LET q == reqs[r] IN
       \E f \in FaultChoice, rejected \in BOOLEAN :
         /\ ~(f /\ rejected)
         /\ Set(r, IF f \/ rejected THEN Throw(q)
                   ELSE IF q.id \notin DOMAIN leaveBalance
                   THEN Respond(q, "NotFound", "NOT_FOUND")
                   ELSE [q EXCEPT !.pc = "h2", !.existing = leaveBalance[q.id]])
         /\ Spend(f)
  /\ UNCHANGED <<db, auditLog>>

\* The PENDING or APPROVED leave requests of an employee under a policy.
ActiveRequests(employeeId, policyId) ==
  {l \in DOMAIN leaveRequest :
     /\ leaveRequest[l].employeeId = employeeId
     /\ leaveRequest[l].policyId = policyId
     /\ leaveRequest[l].status \in {"PENDING", "APPROVED"}}

LeaveBalancesDelete_FindRequests(r) ==
  /\ At(r, "leaveBalances.delete", "h2")
  /\ LET q == reqs[r] IN
       \E f \in FaultChoice :
         /\ Set(r, IF f THEN Throw(q)
                   ELSE IF ActiveRequests(q.existing.employeeId, q.existing.policyId) # {}
                   THEN Respond(q, "ValidationFailed", "VALIDATION_ERROR")
                   ELSE [q EXCEPT !.pc = "h3"])
         /\ Spend(f)
  /\ UNCHANGED <<db, auditLog>>

\* prisma.leaveBalance.delete: rejects when the row is no longer there.
LeaveBalancesDelete_Delete(r) ==
  /\ At(r, "leaveBalances.delete", "h3")
  /\ LET q == reqs[r] IN
       \E f \in FaultChoice :
         /\ IF f \/ q.id \notin DOMAIN leaveBalance
            THEN Set(r, Throw(q)) /\ UNCHANGED db
            ELSE /\ db' = [db EXCEPT !.leaveBalance = Remove(leaveBalance, q.id)]
                 /\ Set(r, [q EXCEPT !.pc = "h4", !.row = Null, !.writes = @ + 1])
         /\ Spend(f)
  /\ UNCHANGED auditLog

LeaveBalancesDelete_Finish(r) ==
  /\ At(r, "leaveBalances.delete", "h4")
  /\ AuditAndRespond(r, reqs[r], "DELETE", "leave_balances", reqs[r].id, Null, "OK")
  /\ UNCHANGED db

\* ------------------------------------------------------------------ GET /api/training-records
\* where.employeeId is the caller's filter, overwritten with the caller's
\* own id for an EMPLOYEE; then Promise.all([findMany, count]).
TrainingRecordsList_Query(r) ==
  /\ At(r, "trainingRecords.list", "h1")
  /\ LET q == reqs[r]
         asked == q.body.employeeId
         q1 == IF q.user.role = "EMPLOYEE" /\ q.user.employee # 0
               THEN [q EXCEPT !.scoped = TRUE, !.subs = {q.user.employee}]
               ELSE IF asked # 0 THEN [q EXCEPT !.scoped = TRUE, !.subs = {asked}]
               ELSE q
     IN
       \E f \in FaultChoice :
         /\ Set(r, IF f THEN Throw(q1)
                   ELSE [q1 EXCEPT !.pc = "h2",
                                   !.out = PageOf(OwnedMatches(trainingRecord, q1), q.body.page, q.body.limit),
                                   !.total = Cardinality(OwnedMatches(trainingRecord, q1))])
         /\ Spend(f)
  /\ UNCHANGED <<db, auditLog>>

TrainingRecordsList_Finish(r) ==
  /\ At(r, "trainingRecords.list", "h2")
  /\ AuditAndRespond(r, reqs[r], "READ", "training_records", 0, Null, "OK")
  /\ UNCHANGED db

\* ------------------------------------------------------------------ GET /api/onboarding-tasks
\* where.employeeId is the caller's filter; for an EMPLOYEE it is assigned
\* req.user.employee?.id, which is undefined when the principal has no
\* employee record. Prisma then either ignores the key (no filter on
\* employeeId) or, with strict undefined checks, rejects the query.
OnboardingTasksList_Query(r) ==
  /\ At(r, "onboardingTasks.list", "h1")
  /\ LET q == reqs[r]
         asked == q.body.employeeId
         q1 == IF q.user.role = "EMPLOYEE"
               THEN IF q.user.employee # 0
                    THEN [q EXCEPT !.scoped = TRUE, !.subs = {q.user.employee}]
                    ELSE q
               ELSE IF asked # 0 THEN [q EXCEPT !.scoped = TRUE, !.subs = {asked}]
               ELSE q
     IN
       \E f \in FaultChoice, strict \in BOOLEAN :
         /\ strict => ~f /\ q.user.role = "EMPLOYEE" /\ q.user.employee = 0
         /\ Set(r, IF f \/ strict THEN Throw(q1)
                   ELSE [q1 EXCEPT !.pc = "h2",
                                   !.out = PageOf(OwnedMatches(onboardingTask, q1), q.body.page, q.body.limit),
                                   !.total = Cardinality(OwnedMatches(onboardingTask, q1))])
         /\ Spend(f)
  /\ UNCHANGED <<db, auditLog>>

OnboardingTasksList_Finish(r) ==
  /\ At(r, "onboardingTasks.list", "h2")
  /\ AuditAndRespond(r, reqs[r], "READ", "onboarding_tasks", 0, Null, "OK")
  /\ UNCHANGED db

\* ------------------------------------------------------------------ employee controller and service
\* employeeService.getEmployee, the access check: for a MANAGER the
\* findFirst on {id, OR: [managerId = self, id = self]}, for an EMPLOYEE the
\* comparison with the caller's own id; both answer NotFoundError.
EmployeeService_GetEmployee_Check(r) ==
  /\ At(r, "employeeController.getEmployee", "h1")
  /\ LET q == reqs[r] IN
       \E f \in FaultChoice :
         /\ f => q.user.role = "MANAGER" /\ q.user.employee # 0
         /\ Set(r, IF q.user.role = "MANAGER" /\ q.user.employee # 0
                   THEN IF f THEN Throw(q)
                        ELSE IF q.id \in DOMAIN employee
                                /\ (employee[q.id].managerId = q.user.employee \/ q.id = q.user.employee)
                        THEN [q EXCEPT !.pc = "h2"]
                        ELSE Respond(q, "NotFound", "NOT_FOUND")
                   ELSE IF q.user.role = "EMPLOYEE" /\ q.user.employee # 0 /\ q.id # q.user.employee
                   THEN Respond(q, "NotFound", "NOT_FOUND")
                   ELSE [q EXCEPT !.pc = "h2"])
         /\ Spend(f)
  /\ UNCHANGED <<db, auditLog>>

EmployeeService_GetEmployee_Find(r) ==
  /\ At(r, "employeeController.getEmployee", "h2")
  /\ LET q == reqs[r] IN
       \E f \in FaultChoice :
         /\ Set(r, IF f THEN Throw(q)
                   ELSE IF q.id \notin DOMAIN employee
                   THEN Respond(q, "NotFound", "NOT_FOUND")
                   ELSE [q EXCEPT !.pc = "h3", !.out = {q.id}, !.row = employee[q.id]])
         /\ Spend(f)
  /\ UNCHANGED <<db, auditLog>>

EmployeeController_GetEmployee_Finish(r) ==
  /\ At(r, "employeeController.getEmployee", "h3")
  /\ AuditAndRespond(r, reqs[r], "READ", "employees", reqs[r].id, Null, "OK")
  /\ UNCHANGED db

\* ------------------------------------------------------------------ employeeService.updateEmployee
EmployeeService_UpdateEmployee_Find(r) ==
  /\ At(r, "employeeController.updateEmployee", "h1")
  /\ LET q == reqs[r] IN
       \E f \in FaultChoice :
         /\ Set(r, IF f THEN Throw(q)
                   ELSE IF q.id \notin DOMAIN employee
                   THEN Respond(q, "NotFound", "NOT_FOUND")
                   ELSE [q EXCEPT !.existing = employee[q.id],
                                  !.pc = IF q.body.email # 0 THEN "h2"
                                         ELSE IF q.body.managerId # 0 THEN "h3" ELSE "h4"])
         /\ Spend(f)
  /\ UNCHANGED <<db, auditLog>>

\* validateEmployeeData(data, true), the e-mail check.
ValidateEmployeeData_Email(r) ==
  /\ At(r, "employeeController.updateEmployee", "h2")
  /\ LET q == reqs[r] IN
       \E f \in FaultChoice :
         /\ Set(r, IF f THEN Throw(q)
                   ELSE IF \E e \in DOMAIN employee : employee[e].email = q.body.email /\ e # q.id
                   THEN Respond(q, "ValidationFailed", "DUPLICATE_EMAIL")
                   ELSE [q EXCEPT !.pc = IF q.body.managerId # 0 THEN "h3" ELSE "h4"])
         /\ Spend(f)
  /\ UNCHANGED <<db, auditLog>>

\* validateEmployeeData(data, true), the manager check: the manager must be
\* an ACTIVE employee.
ValidateEmployeeData_Manager(r) ==
  /\ At(r, "employeeController.updateEmployee", "h3")
  /\ LET q == reqs[r] IN
       \E f \in FaultChoice :
         /\ Set(r, IF f THEN Throw(q)
                   ELSE IF ~ActiveManager(q.body.managerId)
                   THEN Respond(q, "ValidationFailed", "MANAGER_NOT_FOUND")
                   ELSE [q EXCEPT !.pc = "h4"])
         /\ Spend(f)
  /\ UNCHANGED <<db, auditLog>>

\* data: { ...formattedData }: the service passes every supplied field to
\* the update, the employeeId included.
ServiceUpdatedRow(row, body) ==
  [UpdatedRow(row, body) EXCEPT !.employeeId = IF body.employeeId # 0 THEN body.employeeId ELSE @]

EmployeeService_UpdateEmployee_Update(r) ==
  /\ At(r, "employeeController.updateEmployee", "h4")
  /\ LET q == reqs[r]
         row == ServiceUpdatedRow(employee[q.id], q.body)
     IN
       \E f \in FaultChoice :
         /\ IF f \/ ~UniqueOk(q.id, row)
            THEN Set(r, Throw(q)) /\ UNCHANGED db
            ELSE /\ db' = [db EXCEPT !.employee[q.id] = row]
                 /\ Set(r, [q EXCEPT !.pc = "h5", !.row = row, !.writes = @ + 1])
         /\ Spend(f)
  /\ UNCHANGED auditLog

\* The service's audit entry, then the controller's res.json.
EmployeeController_UpdateEmployee_Finish(r) ==
  /\ At(r, "employeeController.updateEmployee", "h5")
  /\ AuditAndRespond(r, reqs[r], "UPDATE", "employees", reqs[r].id, reqs[r].row, "OK")
  /\ UNCHANGED db

\* ------------------------------------------------------------------ DELETE /api/leave-policies/:id
\* A guard that counts only PENDING requests as active.
PolicyRequests_PendingOnly(id) ==
  {l \in DOMAIN leaveRequest : leaveRequest[l].policyId = id /\ leaveRequest[l].status = "PENDING"}

\* include: { leaveRequests: { where: { status: { in: ['PENDING', 'APPROVED'] } } } }
PolicyRequests(id) ==
  {l \in DOMAIN leaveRequest :
     leaveRequest[l].policyId = id /\ leaveRequest[l].status \in {"PENDING", "APPROVED"}}

LeavePoliciesDelete_Find(r) ==
  /\ At(r, "leavePolicies.delete", "h1")
  /\ LET q == reqs[r] IN
       \E f \in FaultChoice :
         /\ Set(r, IF f THEN Throw(q)
                   ELSE IF q.id \notin DOMAIN leavePolicy
                   THEN Respond(q, "NotFound", "NOT_FOUND")
                   ELSE IF PolicyRequests(q.id) # {}
                   THEN Respond([q EXCEPT !.existing = leavePolicy[q.id]],
                                "ValidationFailed", "VALIDATION_ERROR")
                   ELSE [q EXCEPT !.pc = "h2", !.existing = leavePolicy[q.id]])
         /\ Spend(f)
  /\ UNCHANGED <<db, auditLog>>

\* update({ where: { id }, data: { isActive: false } })
LeavePoliciesDelete_Update(r) ==
  /\ At(r, "leavePolicies.delete", "h2")
  /\ LET q == reqs[r]
         row == [leavePolicy[q.id] EXCEPT !.isActive = FALSE]
     IN
       \E f \in FaultChoice :
         /\ IF f
            THEN Set(r, Throw(q)) /\ UNCHANGED db
            ELSE /\ db' = [db EXCEPT !.leavePolicy[q.id] = row]
                 /\ Set(r, [q EXCEPT !.pc = "h3", !.row = row, !.writes = @ + 1])
         /\ Spend(f)
  /\ UNCHANGED auditLog

LeavePoliciesDelete_Finish(r) ==
  /\ At(r, "leavePolicies.delete", "h3")
  /\ AuditAndRespond(r, reqs[r], "DELETE", "leave_policies", reqs[r].id, reqs[r].row, "OK")
  /\ UNCHANGED db

\* ------------------------------------------------------------------ GET /api/job-postings
\* The where clause of the list with no caller filter: for a request without
\* req.user, status 'OPEN' and expiresAt: { gte: new Date() }, which no row
\* with a null expiresAt satisfies.
PostingListMatches(q) ==
  IF q.user = NoUser
  THEN {p \in DOMAIN jobPosting :
          /\ jobPosting[p].status = "OPEN"
          /\ jobPosting[p].expiresAt # NoExpiry
          /\ jobPosting[p].expiresAt >= Now}
  ELSE DOMAIN jobPosting

\* findMany and count, then res.json (the audit call is made only with
\* req.user set).
JobPostingsList_Query(r) ==
  /\ At(r, "jobPostings.list", "h1")
  /\ LET q == reqs[r] IN
       \E f \in FaultChoice :
         /\ Set(r, IF f THEN Throw(q)
                   ELSE Respond([q EXCEPT !.out = PageOf(PostingListMatches(q), q.body.page, q.body.limit),
                                          !.total = Cardinality(PostingListMatches(q))], "OK", ""))
         /\ Spend(f)
  /\ UNCHANGED <<db, auditLog>>

\* The public check of the detail on the row read.
PostingHidden(q, row) ==
  q.user = NoUser /\ (row.status # "OPEN" \/ (row.expiresAt # NoExpiry /\ row.expiresAt < Now))

JobPostingsGet_Find(r) ==
  /\ At(r, "jobPostings.get", "h1")
  /\ LET q == reqs[r] IN
       \E f \in FaultChoice :
         /\ Set(r, IF f THEN Throw(q)
                   ELSE IF q.id \notin DOMAIN jobPosting
                   THEN Respond(q, "NotFound", "NOT_FOUND")
                   ELSE IF PostingHidden(q, jobPosting[q.id])
                   THEN Respond(q, "NotFound", "NOT_FOUND")
                   ELSE Respond([q EXCEPT !.out = {q.id}, !.row = jobPosting[q.id]], "OK", ""))
         /\ Spend(f)
  /\ UNCHANGED <<db, auditLog>>

\* ------------------------------------------------------------------ POST, PUT, DELETE /api/job-postings
\* The truth value JavaScript gives a salary bound: undefined, null and 0 are falsy.
Truthy(n) == n # Undefined /\ n # 0

\* salaryMin && salaryMax && salaryMin > salaryMax
BadSalaryRange(salaryMin, salaryMax) ==
  Truthy(salaryMin) /\ Truthy(salaryMax) /\ salaryMin > salaryMax

NewJobPostingRow(body) ==
  [status |-> "OPEN", expiresAt |-> NoExpiry,
   salaryMin |-> body.salaryMin, salaryMax |-> body.salaryMax]

JobPostingsPost_Create(r) ==
  /\ At(r, "jobPostings.post", "h1")
  /\ LET q == reqs[r]
         row == NewJobPostingRow(q.body)
     IN
       \E f \in FaultChoice :
         /\ f => ~BadSalaryRange(q.body.salaryMin, q.body.salaryMax)
         /\ IF BadSalaryRange(q.body.salaryMin, q.body.salaryMax)
            THEN Set(r, Respond(q, "ValidationFailed", "VALIDATION_ERROR")) /\ UNCHANGED db
            ELSE IF f
            THEN Set(r, Throw(q)) /\ UNCHANGED db
            ELSE /\ db' = [db EXCEPT !.jobPosting = Insert(jobPosting, NextId(jobPosting), row)]
                 /\ Set(r, [q EXCEPT !.pc = "h2", !.id = NextId(jobPosting), !.row = row,
                                     !.writes = @ + 1])
         /\ Spend(f)
  /\ UNCHANGED auditLog

JobPostingsPost_Finish(r) ==
  /\ At(r, "jobPostings.post", "h2")
  /\ AuditAndRespond(r, reqs[r], "CREATE", "job_postings", reqs[r].id, reqs[r].row, "Created")
  /\ UNCHANGED db

\* findUnique, 404, then the salary check on the supplied bounds, with the
\* bounds of existingPosting where none is supplied.
JobPostingsPut_Find(r) ==
  /\ At(r, "jobPostings.put", "h1")
  /\ LET q == reqs[r] IN
       \E f \in FaultChoice :
         /\ Set(r, IF f THEN Throw(q)
                   ELSE IF q.id \notin DOMAIN jobPosting
                   THEN Respond(q, "NotFound", "NOT_FOUND")
                   ELSE LET existing == jobPosting[q.id]
                            salaryMin == IF q.body.salaryMin # Undefined THEN q.body.salaryMin
                                         ELSE existing.salaryMin
                            salaryMax == IF q.body.salaryMax # Undefined THEN q.body.salaryMax
                                         ELSE existing.salaryMax
                        IN IF BadSalaryRange(salaryMin, salaryMax)
                           THEN Respond([q EXCEPT !.existing = existing],
                                        "ValidationFailed", "VALIDATION_ERROR")
                           ELSE [q EXCEPT !.pc = "h2", !.existing = existing])
         /\ Spend(f)
  /\ UNCHANGED <<db, auditLog>>

\* data: { ...updateData }: the supplied bounds overwrite the row's.
UpdatedJobPostingRow(row, body) ==
  [row EXCEPT !.salaryMin = IF body.salaryMin # Undefined THEN body.salaryMin ELSE @,
              !.salaryMax = IF body.salaryMax # Undefined THEN body.salaryMax ELSE @]

JobPostingsPut_Update(r) ==
  /\ At(r, "jobPostings.put", "h2")
  /\ LET q == reqs[r] IN
       \E f \in FaultChoice :
         /\ IF f \/ q.id \notin DOMAIN jobPosting
            THEN Set(r, Throw(q)) /\ UNCHANGED db
            ELSE LET row == UpdatedJobPostingRow(jobPosting[q.id], q.body) IN
                 /\ db' = [db EXCEPT !.jobPosting[q.id] = row]
                 /\ Set(r, [q EXCEPT !.pc = "h3", !.row = row, !.writes = @ + 1])
         /\ Spend(f)
  /\ UNCHANGED auditLog

JobPostingsPut_Finish(r) ==
  /\ At(r, "jobPostings.put", "h3")
  /\ AuditAndRespond(r, reqs[r], "UPDATE", "job_postings", reqs[r].id, reqs[r].row, "OK")
  /\ UNCHANGED db

\* include: { applications: true }
ApplicationsOf(p) == {a \in DOMAIN jobApplication : jobApplication[a].jobPostingId = p}

JobPostingsDelete_Find(r) ==
  /\ At(r, "jobPostings.delete", "h1")
  /\ LET q == reqs[r] IN
       \E f \in FaultChoice :
         /\ Set(r, IF f THEN Throw(q)
                   ELSE IF q.id \notin DOMAIN jobPosting
                   THEN Respond(q, "NotFound", "NOT_FOUND")
                   ELSE IF ApplicationsOf(q.id) # {}
                   THEN Respond([q EXCEPT !.existing = jobPosting[q.id]],
                                "ValidationFailed", "VALIDATION_ERROR")
                   ELSE [q EXCEPT !.pc = "h2", !.existing = jobPosting[q.id]])
         /\ Spend(f)
  /\ UNCHANGED <<db, auditLog>>

\* prisma.jobPosting.delete({ where: { id } }). An application may have been
\* stored since the check; the source does not show whether the database
\* enforces the reference, so the delete is then either rejected or made.
JobPostingsDelete_Delete(r) ==
  /\ At(r, "jobPostings.delete", "h2")
  /\ LET q == reqs[r] IN
       \E f \in FaultChoice, enforced \in BOOLEAN :
         /\ enforced => ApplicationsOf(q.id) # {}
         /\ IF f \/ enforced \/ q.id \notin DOMAIN jobPosting
            THEN Set(r, Throw(q)) /\ UNCHANGED db
            ELSE /\ db' = [db EXCEPT !.jobPosting = Remove(jobPosting, q.id)]
                 /\ Set(r, [q EXCEPT !.pc = "h3", !.writes = @ + 1])
         /\ Spend(f)
  /\ UNCHANGED auditLog

JobPostingsDelete_Finish(r) ==
  /\ At(r, "jobPostings.delete", "h3")
  /\ AuditAndRespond(r, reqs[r], "DELETE", "job_postings", reqs[r].id, Null, "OK")
  /\ UNCHANGED db

\* ------------------------------------------------------------------ POST, PUT /api/offboarding-tasks
OffboardingTasksPost_FindEmployee(r) ==
  /\ At(r, "offboardingTasks.post", "h1")
  /\ LET q == reqs[r] IN
       \E f \in FaultChoice :
         /\ Set(r, IF f THEN Throw(q)
                   ELSE IF q.body.employeeId \notin DOMAIN employee
                   THEN Respond(q, "ValidationFailed", "VALIDATION_ERROR")
                   ELSE [q EXCEPT !.pc = "h2"])
         /\ Spend(f)
  /\ UNCHANGED <<db, auditLog>>

\* create with isCompleted: false; completedAt is not set.
NewOffboardingTaskRow(body) ==
  [employeeId |-> body.employeeId, isCompleted |-> FALSE, completedAt |-> NoDate]

OffboardingTasksPost_Create(r) ==
  /\ At(r, "offboardingTasks.post", "h2")
  /\ LET q == reqs[r]
         row == NewOffboardingTaskRow(q.body)
     IN
       \E f \in FaultChoice :
         /\ IF f
            THEN Set(r, Throw(q)) /\ UNCHANGED db
            ELSE /\ db' = [db EXCEPT !.offboardingTask =
                                       Insert(offboardingTask, NextId(offboardingTask), row)]
                 /\ Set(r, [q EXCEPT !.pc = "h3", !.id = NextId(offboardingTask), !.row = row,
                                     !.writes = @ + 1])
         /\ Spend(f)
  /\ UNCHANGED auditLog

OffboardingTasksPost_Finish(r) ==
  /\ At(r, "offboardingTasks.post", "h3")
  /\ AuditAndRespond(r, reqs[r], "CREATE", "offboarding_tasks", reqs[r].id, reqs[r].row, "Created")
  /\ UNCHANGED db

OffboardingTasksPut_Find(r) ==
  /\ At(r, "offboardingTasks.put", "h1")
  /\ LET q == reqs[r] IN
       \E f \in FaultChoice :
         /\ Set(r, IF f THEN Throw(q)
                   ELSE IF q.id \notin DOMAIN offboardingTask
                   THEN Respond(q, "NotFound", "NOT_FOUND")
                   ELSE [q EXCEPT !.pc = "h2", !.existing = offboardingTask[q.id]])
         /\ Spend(f)
  /\ UNCHANGED <<db, auditLog>>

\* The update of the stored row with updateData: isCompleted when supplied;
\* completedAt = new Date() when the request completes a task that
\* existingTask shows open, null when the request reopens it, and left as
\* stored otherwise.
UpdatedOffboardingTaskRow(row, existing, body) ==
  [row EXCEPT !.isCompleted = IF body.isCompleted = "undefined" THEN @
                              ELSE body.isCompleted = "true",
              !.completedAt = IF body.isCompleted = "true" /\ ~existing.isCompleted THEN Now
                              ELSE IF body.isCompleted = "false" THEN NoDate
                              ELSE @]

OffboardingTasksPut_Update(r) ==
  /\ At(r, "offboardingTasks.put", "h2")
  /\ LET q == reqs[r] IN
       \E f \in FaultChoice :
         /\ IF f \/ q.id \notin DOMAIN offboardingTask
            THEN Set(r, Throw(q)) /\ UNCHANGED db
            ELSE LET row == UpdatedOffboardingTaskRow(offboardingTask[q.id], q.existing, q.body) IN
                 /\ db' = [db EXCEPT !.offboardingTask[q.id] = row]
                 /\ Set(r, [q EXCEPT !.pc = "h3", !.row = row, !.writes = @ + 1])
         /\ Spend(f)
  /\ UNCHANGED auditLog

OffboardingTasksPut_Finish(r) ==
  /\ At(r, "offboardingTasks.put", "h3")
  /\ AuditAndRespond(r, reqs[r], "UPDATE", "offboarding_tasks", reqs[r].id, reqs[r].row, "OK")
  /\ UNCHANGED db

\* ------------------------------------------------------------------ POST /api/job-applications
JobApplicationsPost_FindPosting(r) ==
  /\ At(r, "jobApplications.post", "h1")
  /\ LET q == reqs[r]
         p == q.body.jobPostingId
     IN
       \E f \in FaultChoice :
         /\ Set(r, IF f THEN Throw(q)
                   ELSE IF p \notin DOMAIN jobPosting
                           \/ jobPosting[p].status # "OPEN"
                           \/ (jobPosting[p].expiresAt # NoExpiry /\ jobPosting[p].expiresAt < Now)
                   THEN Respond(q, "ValidationFailed", "VALIDATION_ERROR")
                   ELSE [q EXCEPT !.pc = "h2"])
         /\ Spend(f)
  /\ UNCHANGED <<db, auditLog>>

JobApplicationsPost_FindExisting(r) ==
  /\ At(r, "jobApplications.post", "h2")
  /\ LET q == reqs[r] IN
       \E f \in FaultChoice :
         /\ Set(r, IF f THEN Throw(q)
                   ELSE IF \E a \in DOMAIN jobApplication :
                             /\ jobApplication[a].jobPostingId = q.body.jobPostingId
                             /\ jobApplication[a].email = q.body.email
                   THEN Respond(q, "ValidationFailed", "VALIDATION_ERROR")
                   ELSE [q EXCEPT !.pc = "h3"])
         /\ Spend(f)
  /\ UNCHANGED <<db, auditLog>>

NewJobApplicationRow(body) ==
  [jobPostingId |-> body.jobPostingId, email |-> body.email, status |-> "APPLIED"]

\* create, then res.status(201): the handler calls no createAuditLog. The
\* posting read at the start may be gone by now; the source does not show
\* whether the database enforces the reference to it, so such a create is
\* either rejected by the database or stored.
JobApplicationsPost_Create(r) ==
  /\ At(r, "jobApplications.post", "h3")
  /\ LET q == reqs[r]
         row == NewJobApplicationRow(q.body)
     IN
       \E f \in FaultChoice, enforced \in BOOLEAN :
         /\ enforced => q.body.jobPostingId \notin DOMAIN jobPosting
         /\ IF f \/ enforced
            THEN Set(r, Throw(q)) /\ UNCHANGED db
            ELSE /\ db' = [db EXCEPT !.jobApplication = Insert(jobApplication, NextId(jobApplication), row)]
                 /\ Set(r, Respond([q EXCEPT !.id = NextId(jobApplication), !.row = row,
                                             !.writes = @ + 1], "Created", ""))
         /\ Spend(f)
  /\ UNCHANGED auditLog

\* ------------------------------------------------------------------ detail reads of owned records
\* GET /:id of a table with an employeeId column: findUnique, 404 when the
\* row is absent, then the permission check on the row that was read (an
\* EMPLOYEE whose linked employee is not the row's owner gets 403).
DetailFind(q, table, f) ==
  IF f THEN Throw(q)
  ELSE IF q.id \notin DOMAIN table THEN Respond(q, "NotFound", "NOT_FOUND")
  ELSE IF q.user.role = "EMPLOYEE" /\ q.user.employee # table[q.id].employeeId
  THEN Respond([q EXCEPT !.existing = table[q.id]], "Forbidden", "ACCESS_DENIED")
  ELSE [q EXCEPT !.pc = "h2", !.existing = table[q.id], !.out = {q.id}]

LeaveBalancesGet_Find(r) ==
  /\ At(r, "leaveBalances.get", "h1")
  /\ \E f \in FaultChoice : Set(r, DetailFind(reqs[r], leaveBalance, f)) /\ Spend(f)
  /\ UNCHANGED <<db, auditLog>>

LeaveBalancesGet_Finish(r) ==
  /\ At(r, "leaveBalances.get", "h2")
  /\ AuditAndRespond(r, reqs[r], "READ", "leave_balances", reqs[r].id, Null, "OK")
  /\ UNCHANGED db

TrainingRecordsGet_Find(r) ==
  /\ At(r, "trainingRecords.get", "h1")
  /\ \E f \in FaultChoice : Set(r, DetailFind(reqs[r], trainingRecord, f)) /\ Spend(f)
  /\ UNCHANGED <<db, auditLog>>

TrainingRecordsGet_Finish(r) ==
  /\ At(r, "trainingRecords.get", "h2")
  /\ AuditAndRespond(r, reqs[r], "READ", "training_records", reqs[r].id, Null, "OK")
  /\ UNCHANGED db

OnboardingTasksGet_Find(r) ==
  /\ At(r, "onboardingTasks.get", "h1")
  /\ \E f \in FaultChoice : Set(r, DetailFind(reqs[r], onboardingTask, f)) /\ Spend(f)
  /\ UNCHANGED <<db, auditLog>>

OnboardingTasksGet_Finish(r) ==
  /\ At(r, "onboardingTasks.get", "h2")
  /\ AuditAndRespond(r, reqs[r], "READ", "onboarding_tasks", reqs[r].id, Null, "OK")
  /\ UNCHANGED db

\* ------------------------------------------------------------------ requests
Creds == {0, -1} \cup UserIds

Started(r) == reqs[r].op # "none"

\* A new request enters its route's chain.
Issue(r, op, cred, id, body) ==
  /\ ~Started(r)
  /\ \A r2 \in ReqIds : r2 < r => Started(r2)
  /\ Set(r, Advance([IdleReq EXCEPT
                       !.op = op, !.cred = cred, !.id = id, !.body = body,
                       !.user = IF ~Declares(op, "authenticate") /\ cred \in UserIds
                                THEN Principal(cred) ELSE NoUser]))
  /\ UNCHANGED <<db, auditLog, faultsLeft>>

\* The requests of the employee routes: per route, the credentials, targets
\* and bodies that reach each of its branches.
EmployeeInputs(op) ==
  CASE op = "employees.list" ->
         {[cred |-> c, id |-> 0, body |-> [NoBody EXCEPT !.limit = l]] : c \in {1, 3, 5}, l \in {2, 10}}
         \cup {[cred |-> 3, id |-> 0, body |-> [NoBody EXCEPT !.ok = FALSE]]}
    [] op = "employees.get" ->
         {[cred |-> c, id |-> i, body |-> NoBody] : c \in {3, 4}, i \in 1..3}
    [] op = "employees.post" ->
         {[cred |-> 1, id |-> 0,
           body |-> [NoBody EXCEPT !.employeeId = ce[1], !.email = ce[2], !.managerId = m,
                                   !.employmentStatus = "ACTIVE"]] :
            ce \in {<<1, 1>>, <<4, 4>>, <<4, 1>>}, m \in {0, 1}}
         \cup {[cred |-> 3, id |-> 0,
                body |-> [NoBody EXCEPT !.employeeId = 4, !.email = 4,
                                        !.employmentStatus = "ACTIVE"]],
               [cred |-> 1, id |-> 0, body |-> [NoBody EXCEPT !.ok = FALSE]]}
    [] op = "employees.put" ->
         {[cred |-> 1, id |-> i, body |-> b] :
            i \in 1..3,
            b \in {[NoBody EXCEPT !.employmentStatus = "TERMINATED"],
                   [NoBody EXCEPT !.managerId = 1],
                   [NoBody EXCEPT !.managerId = 2],
                   [NoBody EXCEPT !.email = 2]}}
    [] OTHER ->
         {[cred |-> 1, id |-> i, body |-> NoBody] : i \in 1..3}
         \cup {[cred |-> 3, id |-> 1, body |-> NoBody], [cred |-> 0, id |-> 1, body |-> NoBody]}

StartEmployees(r) ==
  \E op \in EmployeeOps :
    \E in \in EmployeeInputs(op) : Issue(r, op, in.cred, in.id, in.body)

Next ==
  \E r \in ReqIds :
    \/ StartEmployees(r)
    \/ Authenticate(r)
    \/ Authorize(r)
    \/ AuthorizeEmployee(r)
    \/ Validate(r)
    \/ EmployeesList_Scope(r)
    \/ EmployeesList_Query(r)
    \/ EmployeesList_Finish(r)
    \/ EmployeesGet_Find(r)
    \/ EmployeesGet_Finish(r)
    \/ EmployeesPost_FindEmployeeId(r)
    \/ EmployeesPost_FindEmail(r)
    \/ EmployeesPost_FindManager(r)
    \/ EmployeesPost_Create(r)
    \/ EmployeesPost_Finish(r)
    \/ EmployeesPut_Find(r)
    \/ EmployeesPut_FindEmail(r)
    \/ EmployeesPut_FindManager(r)
    \/ EmployeesPut_Update(r)
    \/ EmployeesPut_Finish(r)
    \/ EmployeesDelete_Find(r)
    \/ EmployeesDelete_Terminate(r)
    \/ EmployeesDelete_DeactivateUser(r)
    \/ EmployeesDelete_Finish(r)

Spec == Init /\ [][Next]_vars

\* ------------------------------------------------------------------ the access-control gate
\* Requests to role-gated routes of three routers: for every route each
\* credential the gate turns away (absent, invalid, a role outside the
\* route's set) with a well-formed and with a malformed input, and the ADMIN
\* with inputs that reach the handler's branches.
GateOps == {"employees.list", "employees.post", "settings.list", "settings.post",
            "leaveBalances.post"}

GateBody(op) ==
  CASE op = "employees.post" ->
         [NoBody EXCEPT !.employeeId = 4, !.email = 4, !.managerId = 1, !.employmentStatus = "ACTIVE"]
    [] op = "settings.post" -> [NoBody EXCEPT !.key = 1]
    [] op = "leaveBalances.post" ->
         [NoBody EXCEPT !.employeeId = 1, !.policyId = 1, !.year = 2025, !.allocated = 2, !.carryForward = 1]
    [] OTHER -> NoBody

GateInputs(op) ==
  {[cred |-> c, id |-> 0, body |-> [GateBody(op) EXCEPT !.ok = ok]] :
     c \in {c2 \in Creds : c2 \notin UserIds \/ UserRole(c2) \notin AllowedRoles(op)},
     ok \in BOOLEAN}
  \cup {[cred |-> 1, id |-> 0, body |-> GateBody(op)]}

StartGate(r) ==
  \E op \in GateOps :
    \E in \in GateInputs(op) : Issue(r, op, in.cred, in.id, in.body)

NextGate ==
  \E r \in ReqIds :
    \/ StartGate(r)
    \/ Authenticate(r)
    \/ Authorize(r)
    \/ Validate(r)
    \/ EmployeesList_Scope(r)
    \/ EmployeesList_Query(r)
    \/ EmployeesList_Finish(r)
    \/ EmployeesPost_FindEmployeeId(r)
    \/ EmployeesPost_FindEmail(r)
    \/ EmployeesPost_FindManager(r)
    \/ EmployeesPost_Create(r)
    \/ EmployeesPost_Finish(r)
    \/ SettingsList_Query(r)
    \/ SettingsList_Finish(r)
    \/ SettingsPost_FindKey(r)
    \/ SettingsPost_Create(r)
    \/ SettingsPost_Finish(r)
    \/ LeaveBalancesPost_FindEmployee(r)
    \/ LeaveBalancesPost_FindPolicy(r)
    \/ LeaveBalancesPost_FindExisting(r)
    \/ LeaveBalancesPost_Create(r)
    \/ LeaveBalancesPost_Finish(r)

SpecGate == Init /\ [][NextGate]_vars

\* ------------------------------------------------------------------ role-scoped reads
\* List and detail reads by a MANAGER (with and without a linked employee
\* record), an EMPLOYEE and the ADMIN, with and without an explicit
\* employeeId, while the ADMIN moves employee 3 under manager 1 or changes
\* its e-mail.
ScopeInputs(op) ==
  CASE op = "leaveBalances.list" ->
         {[cred |-> c, id |-> 0, body |-> [NoBody EXCEPT !.employeeId = e]] :
            c \in {1, 3, 4, 5}, e \in 0..3}
    [] op = "trainingRecords.list" ->
         {[cred |-> c, id |-> 0, body |-> [NoBody EXCEPT !.employeeId = e]] :
            c \in {1, 4}, e \in {0, 2, 3}}
    [] op = "employeeController.getEmployee" ->
         {[cred |-> c, id |-> i, body |-> NoBody] : c \in {3, 4}, i \in 1..4}
    [] OTHER ->  \* employees.put
         {[cred |-> 1, id |-> 3, body |-> b] :
            b \in {[NoBody EXCEPT !.managerId = 1], [NoBody EXCEPT !.email = 4]}}

ScopeOps == {"leaveBalances.list", "trainingRecords.list", "employeeController.getEmployee",
             "employees.put"}

StartScope(r) ==
  \E op \in ScopeOps :
    \E in \in ScopeInputs(op) : Issue(r, op, in.cred, in.id, in.body)

NextScope ==
  \E r \in ReqIds :
    \/ StartScope(r)
    \/ Authenticate(r)
    \/ Authorize(r)
    \/ Validate(r)
    \/ LeaveBalancesList_Scope(r)
    \/ LeaveBalancesList_Query(r)
    \/ LeaveBalancesList_Finish(r)
    \/ TrainingRecordsList_Query(r)
    \/ TrainingRecordsList_Finish(r)
    \/ EmployeeService_GetEmployee_Check(r)
    \/ EmployeeService_GetEmployee_Find(r)
    \/ EmployeeController_GetEmployee_Finish(r)
    \/ EmployeesPut_Find(r)
    \/ EmployeesPut_FindEmail(r)
    \/ EmployeesPut_FindManager(r)
    \/ EmployeesPut_Update(r)
    \/ EmployeesPut_Finish(r)

SpecScope == Init /\ [][NextScope]_vars

\* ------------------------------------------------------------------ mutations and their audit entries
\* Creates, updates and deletes of three routers, among them the public
\* application form.
AuditInputs(op) ==
  CASE op = "employees.post" ->
         {[cred |-> 1, id |-> 0,
           body |-> [NoBody EXCEPT !.employeeId = ce[1], !.email = ce[2], !.managerId = m,
                                   !.employmentStatus = "ACTIVE"]] :
            ce \in {<<4, 4>>, <<4, 1>>}, m \in {0, 1}}
         \cup {[cred |-> 4, id |-> 0, body |-> NoBody]}
    [] op = "employees.put" ->
         {[cred |-> 2, id |-> i, body |-> b] :
            i \in {2, 4},
            b \in {[NoBody EXCEPT !.managerId = 3], [NoBody EXCEPT !.email = 1],
                   [NoBody EXCEPT !.email = 4]}}
    [] op = "leaveBalances.delete" ->
         {[cred |-> 1, id |-> i, body |-> NoBody] : i \in {1, 2, 4}}
    [] op = "auditLogs.list" ->
         {[cred |-> c, id |-> 0, body |-> NoBody] : c \in {2, 4}}
    [] OTHER ->  \* jobApplications.post
         {[cred |-> 0, id |-> 0, body |-> [NoBody EXCEPT !.jobPostingId = p, !.email = 1, !.ok = ok]] :
            p \in 1..2, ok \in BOOLEAN}

AuditOps == {"employees.post", "employees.put", "leaveBalances.delete", "jobApplications.post",
             "auditLogs.list"}

StartAudit(r) ==
  \E op \in AuditOps :
    \E in \in AuditInputs(op) : Issue(r, op, in.cred, in.id, in.body)

NextAudit ==
  \E r \in ReqIds :
    \/ StartAudit(r)
    \/ Authenticate(r)
    \/ Authorize(r)
    \/ Validate(r)
    \/ EmployeesPost_FindEmployeeId(r)
    \/ EmployeesPost_FindEmail(r)
    \/ EmployeesPost_FindManager(r)
    \/ EmployeesPost_Create(r)
    \/ EmployeesPost_Finish(r)
    \/ EmployeesPut_Find(r)
    \/ EmployeesPut_FindEmail(r)
    \/ EmployeesPut_FindManager(r)
    \/ EmployeesPut_Update(r)
    \/ EmployeesPut_Finish(r)
    \/ LeaveBalancesDelete_Find(r)
    \/ LeaveBalancesDelete_FindRequests(r)
    \/ LeaveBalancesDelete_Delete(r)
    \/ LeaveBalancesDelete_Finish(r)
    \/ AuditLogsList_Query(r)
    \/ JobApplicationsPost_FindPosting(r)
    \/ JobApplicationsPost_FindExisting(r)
    \/ JobApplicationsPost_Create(r)

SpecAudit == Init /\ [][NextAudit]_vars

\* ------------------------------------------------------------------ detail reads
\* Detail reads of leave balances, training records and onboarding tasks
\* by every kind of caller (no or an invalid credential, a role outside the
\* route's set, the owner, another employee, a manager, the ADMIN), next to
\* the leave-balance list of the same manager.
DetailInputs(op) ==
  CASE op = "leaveBalances.get" ->
         {[cred |-> c, id |-> i, body |-> NoBody] : c \in {-1, 1, 3, 4, 6}, i \in 1..4}
    [] op = "trainingRecords.get" ->
         {[cred |-> c, id |-> i, body |-> NoBody] : c \in {0, 3, 4}, i \in 1..2}
    [] op = "onboardingTasks.get" ->
         {[cred |-> c, id |-> i, body |-> NoBody] : c \in {2, 4}, i \in 1..2}
    [] OTHER ->  \* leaveBalances.list
         {[cred |-> 3, id |-> 0, body |-> NoBody]}

DetailOps == {"leaveBalances.get", "trainingRecords.get", "onboardingTasks.get",
              "leaveBalances.list"}

StartDetail(r) ==
  \E op \in DetailOps :
    \E in \in DetailInputs(op) : Issue(r, op, in.cred, in.id, in.body)

NextDetail ==
  \E r \in ReqIds :
    \/ StartDetail(r)
    \/ Authenticate(r)
    \/ Authorize(r)
    \/ Validate(r)
    \/ LeaveBalancesGet_Find(r)
    \/ LeaveBalancesGet_Finish(r)
    \/ TrainingRecordsGet_Find(r)
    \/ TrainingRecordsGet_Finish(r)
    \/ OnboardingTasksGet_Find(r)
    \/ OnboardingTasksGet_Finish(r)
    \/ LeaveBalancesList_Scope(r)
    \/ LeaveBalancesList_Query(r)
    \/ LeaveBalancesList_Finish(r)

SpecDetail == Init /\ [][NextDetail]_vars

\* ------------------------------------------------------------------ employee writes, route and service
\* Creates and updates of employees through the route handlers and through
\* the employee service, with manager ids that are the employee itself,
\* another ACTIVE employee or no employee.
ServiceInputs(op) ==
  CASE op = "employees.post" ->
         {[cred |-> 1, id |-> 0,
           body |-> [NoBody EXCEPT !.employeeId = 4, !.email = 4, !.managerId = 1,
                                   !.employmentStatus = "ACTIVE"]]}
    [] op = "employees.put" ->
         {[cred |-> 1, id |-> i, body |-> [NoBody EXCEPT !.managerId = m]] :
            i \in {2, 3}, m \in {1, 2, 3}}
         \cup {[cred |-> 1, id |-> 2, body |-> [NoBody EXCEPT !.email = 4]]}
    [] OTHER ->  \* employeeController.updateEmployee
         {[cred |-> 1, id |-> i, body |-> [NoBody EXCEPT !.managerId = m]] :
            i \in {2, 3, 5}, m \in {2, 3, 5}}
         \cup {[cred |-> 1, id |-> 2, body |-> [NoBody EXCEPT !.email = e]] : e \in {1, 2, 4}}
         \cup {[cred |-> 1, id |-> 2, body |-> [NoBody EXCEPT !.employeeId = e]] : e \in {1, 4}}

ServiceOps == {"employees.post", "employees.put", "employeeController.updateEmployee"}

StartService(r) ==
  \E op \in ServiceOps :
    \E in \in ServiceInputs(op) : Issue(r, op, in.cred, in.id, in.body)

NextService ==
  \E r \in ReqIds :
    \/ StartService(r)
    \/ Authenticate(r)
    \/ Authorize(r)
    \/ Validate(r)
    \/ EmployeesPost_FindEmployeeId(r)
    \/ EmployeesPost_FindEmail(r)
    \/ EmployeesPost_FindManager(r)
    \/ EmployeesPost_Create(r)
    \/ EmployeesPost_Finish(r)
    \/ EmployeesPut_Find(r)
    \/ EmployeesPut_FindEmail(r)
    \/ EmployeesPut_FindManager(r)
    \/ EmployeesPut_Update(r)
    \/ EmployeesPut_Finish(r)
    \/ EmployeeService_UpdateEmployee_Find(r)
    \/ ValidateEmployeeData_Email(r)
    \/ ValidateEmployeeData_Manager(r)
    \/ EmployeeService_UpdateEmployee_Update(r)
    \/ EmployeeController_UpdateEmployee_Finish(r)

SpecService == Init /\ [][NextService]_vars

\* ------------------------------------------------------------------ leave-policy deletes
\* Deletes of the three policies and of an absent one by ADMIN, HR, an
\* EMPLOYEE and a caller without credential.
PolicyInputs(op) ==
  {[cred |-> c, id |-> i, body |-> NoBody] : c \in {0, 1, 2, 4}, i \in 1..4}

StartPolicy(r) ==
  \E op \in LeavePolicyOps :
    \E in \in PolicyInputs(op) : Issue(r, op, in.cred, in.id, in.body)

NextPolicy ==
  \E r \in ReqIds :
    \/ StartPolicy(r)
    \/ Authenticate(r)
    \/ Authorize(r)
    \/ LeavePoliciesDelete_Find(r)
    \/ LeavePoliciesDelete_Update(r)
    \/ LeavePoliciesDelete_Finish(r)

SpecPolicy == Init /\ [][NextPolicy]_vars

\* ------------------------------------------------------------------ leave-balance writes, one at a time
\* Creates and updates of leave balances, each request issued when no other
\* is in flight; the updates supply every subset of allocated, used and
\* carryForward.
BalanceInputs(op) ==
  CASE op = "leaveBalances.post" ->
         {[cred |-> 1, id |-> 0,
           body |-> [NoBody EXCEPT !.employeeId = 1, !.policyId = p, !.year = 2024,
                                   !.allocated = a, !.carryForward = c]] :
            p \in {1, 2, 4}, a \in {0, 3}, c \in {0, 1}}
         \cup {[cred |-> 1, id |-> 0,
                body |-> [NoBody EXCEPT !.employeeId = 4, !.policyId = 2, !.year = 2024]]}
    [] OTHER ->  \* leaveBalances.put
         {[cred |-> 2, id |-> i,
           body |-> [NoBody EXCEPT !.allocated = a, !.used = u, !.carryForward = c]] :
            i \in {1, 4}, a \in {Undefined, 3}, u \in {Undefined, 1, 4}, c \in {Undefined, 1}}
         \cup {[cred |-> c, id |-> 1, body |-> [NoBody EXCEPT !.ok = ok]] :
                 c \in {2, 4}, ok \in BOOLEAN}

BalanceOps == {"leaveBalances.post", "leaveBalances.put"}

\* A request is issued only when every earlier one has been answered.
StartBalance(r) ==
  /\ \A r2 \in ReqIds : Started(r2) => reqs[r2].pc = "done"
  /\ \E op \in BalanceOps :
       \E in \in BalanceInputs(op) : Issue(r, op, in.cred, in.id, in.body)

NextBalance ==
  \E r \in ReqIds :
    \/ StartBalance(r)
    \/ Authenticate(r)
    \/ Authorize(r)
    \/ Validate(r)
    \/ LeaveBalancesPost_FindEmployee(r)
    \/ LeaveBalancesPost_FindPolicy(r)
    \/ LeaveBalancesPost_FindExisting(r)
    \/ LeaveBalancesPost_Create(r)
    \/ LeaveBalancesPost_Finish(r)
    \/ LeaveBalancesPut_Find(r)
    \/ LeaveBalancesPut_Update(r)
    \/ LeaveBalancesPut_Finish(r)

SpecBalance == Init /\ [][NextBalance]_vars

\* ------------------------------------------------------------------ leave-balance writes, concurrent
\* Two concurrent writes: updates of balance 1 that each supply one of
\* allocated, used and carryForward, and creates for one (employee, policy,
\* year).
BalanceRaceInputs(op) ==
  CASE op = "leaveBalances.post" ->
         {[cred |-> 1, id |-> 0,
           body |-> [NoBody EXCEPT !.employeeId = 1, !.policyId = 2, !.year = 2024,
                                   !.allocated = 3, !.carryForward = c]] : c \in {0, 1}}
    [] OTHER ->  \* leaveBalances.put
         {[cred |-> 2, id |-> 1,
           body |-> [NoBody EXCEPT !.allocated = b[1], !.used = b[2], !.carryForward = b[3]]] :
            b \in {<<3, Undefined, Undefined>>, <<Undefined, 1, Undefined>>,
                   <<Undefined, Undefined, 1>>}}

NextBalanceRace ==
  \E r \in ReqIds :
    \/ \E op \in {"leaveBalances.post", "leaveBalances.put"} :
         \E in \in BalanceRaceInputs(op) : Issue(r, op, in.cred, in.id, in.body)
    \/ Authenticate(r)
    \/ Authorize(r)
    \/ Validate(r)
    \/ LeaveBalancesPost_FindEmployee(r)
    \/ LeaveBalancesPost_FindPolicy(r)
    \/ LeaveBalancesPost_FindExisting(r)
    \/ LeaveBalancesPost_Create(r)
    \/ LeaveBalancesPost_Finish(r)
    \/ LeaveBalancesPut_Find(r)
    \/ LeaveBalancesPut_Update(r)
    \/ LeaveBalancesPut_Finish(r)

SpecBalanceRace == Init /\ [][NextBalanceRace]_vars

\* ------------------------------------------------------------------ public reads of job postings
\* The public list (whole and in pages of two) and the public detail of each
\* posting and of an absent one; the postings do not change.
PublicInputs(op) ==
  CASE op = "jobPostings.list" ->
         {[cred |-> 0, id |-> 0, body |-> [NoBody EXCEPT !.limit = l, !.ok = ok]] :
            l \in {2, 10}, ok \in BOOLEAN}
    [] OTHER ->  \* jobPostings.get
         {[cred |-> 0, id |-> i, body |-> NoBody] : i \in 1..5}

NextPublic ==
  \E r \in ReqIds :
    \/ \E op \in {"jobPostings.list", "jobPostings.get"} :
         \E in \in PublicInputs(op) : Issue(r, op, in.cred, in.id, in.body)
    \/ Validate(r)
    \/ JobPostingsList_Query(r)
    \/ JobPostingsGet_Find(r)

SpecPublic == Init /\ [][NextPublic]_vars

\* ------------------------------------------------------------------ job-posting writes
\* Creates and updates of postings with salary bounds that are absent, 0 or
\* positive, deletes of postings, and public applications to posting 4.
PostingInputs(op) ==
  CASE op = "jobPostings.post" ->
         {[cred |-> 1, id |-> 0, body |-> [NoBody EXCEPT !.salaryMin = b[1], !.salaryMax = b[2]]] :
            b \in {<<3, 0>>, <<0, 3>>, <<3, 1>>, <<3, Undefined>>}}
    [] op = "jobPostings.put" ->
         {[cred |-> 2, id |-> i, body |-> [NoBody EXCEPT !.salaryMin = b[1], !.salaryMax = b[2]]] :
            i \in {1, 6}, b \in {<<Undefined, 0>>, <<3, Undefined>>, <<Undefined, 3>>}}
    [] op = "jobPostings.delete" ->
         {[cred |-> 1, id |-> i, body |-> NoBody] : i \in {4, 6}}
    [] OTHER ->  \* jobApplications.post
         {[cred |-> 0, id |-> 0, body |-> [NoBody EXCEPT !.jobPostingId = 4, !.email = 1]]}

NextPosting ==
  \E r \in ReqIds :
    \/ \E op \in {"jobPostings.post", "jobPostings.put", "jobPostings.delete",
                  "jobApplications.post"} :
         \E in \in PostingInputs(op) : Issue(r, op, in.cred, in.id, in.body)
    \/ Authenticate(r)
    \/ Authorize(r)
    \/ Validate(r)
    \/ JobPostingsPost_Create(r)
    \/ JobPostingsPost_Finish(r)
    \/ JobPostingsPut_Find(r)
    \/ JobPostingsPut_Update(r)
    \/ JobPostingsPut_Finish(r)
    \/ JobPostingsDelete_Find(r)
    \/ JobPostingsDelete_Delete(r)
    \/ JobPostingsDelete_Finish(r)
    \/ JobApplicationsPost_FindPosting(r)
    \/ JobApplicationsPost_FindExisting(r)
    \/ JobApplicationsPost_Create(r)

SpecPosting == Init /\ [][NextPosting]_vars

\* ------------------------------------------------------------------ offboarding-task writes
\* Creates of tasks and updates of the open task 1, the completed task 2 and
\* an absent task, with isCompleted true, false or not supplied.
OffboardingInputs(op) ==
  CASE op = "offboardingTasks.post" ->
         {[cred |-> 1, id |-> 0, body |-> [NoBody EXCEPT !.employeeId = e]] : e \in {3, 9}}
    [] OTHER ->  \* offboardingTasks.put
         {[cred |-> 2, id |-> i, body |-> [NoBody EXCEPT !.isCompleted = c]] :
            i \in 1..3, c \in {"true", "false", "undefined"}}

NextOffboarding ==
  \E r \in ReqIds :
    \/ \E op \in OffboardingTaskOps :
         \E in \in OffboardingInputs(op) : Issue(r, op, in.cred, in.id, in.body)
    \/ Authenticate(r)
    \/ Authorize(r)
    \/ Validate(r)
    \/ OffboardingTasksPost_FindEmployee(r)
    \/ OffboardingTasksPost_Create(r)
    \/ OffboardingTasksPost_Finish(r)
    \/ OffboardingTasksPut_Find(r)
    \/ OffboardingTasksPut_Update(r)
    \/ OffboardingTasksPut_Finish(r)

SpecOffboarding == Init /\ [][NextOffboarding]_vars

\* ------------------------------------------------------------------ lists read by EMPLOYEE accounts
\* The three lists read by the EMPLOYEE account linked to employee 2 and by
\* the EMPLOYEE account with no employee record, with and without an
\* employeeId filter.
OwnListOps == {"leaveBalances.list", "trainingRecords.list", "onboardingTasks.list"}

OwnListInputs ==
  {[cred |-> c, id |-> 0, body |-> [NoBody EXCEPT !.employeeId = e]] : c \in {4, 6}, e \in {0, 2, 3}}

NextOwnList ==
  \E r \in ReqIds :
    \/ \E op \in OwnListOps :
         \E in \in OwnListInputs : Issue(r, op, in.cred, in.id, in.body)
    \/ Authenticate(r)
    \/ Authorize(r)
    \/ Validate(r)
    \/ LeaveBalancesList_Scope(r)
    \/ LeaveBalancesList_Query(r)
    \/ LeaveBalancesList_Finish(r)
    \/ TrainingRecordsList_Query(r)
    \/ TrainingRecordsList_Finish(r)
    \/ OnboardingTasksList_Query(r)
    \/ OnboardingTasksList_Finish(r)

SpecOwnList == Init /\ [][NextOwnList]_vars

\* ------------------------------------------------------------------ properties
Done(q) == q.pc = "done"
Succeeded(q) == Done(q) /\ q.resp \in {"OK", "Created"}
Failed(q) == Done(q) /\ q.resp \notin {"OK", "Created"}

Mutating(op) == op \in {"employees.post", "employees.put", "employees.delete",
                        "jobApplications.post", "leaveBalances.post", "leaveBalances.delete",
                        "settings.post"}

\* The audit entries request r has written.
EntriesOf(r) == {i \in DOMAIN auditLog : auditLog[i].req = r}

\* The database writes the handler of q makes on its way to a success response.
WritesNeeded(q) ==
  CASE q.op = "employees.delete" -> IF q.existing.userId # 0 THEN 2 ELSE 1
    [] Mutating(q.op) -> 1
    [] OTHER -> 0

\* {self} and the direct reports of the manager principal p.
ManagerScope(p) ==
  IF p.employee = 0 THEN {}
  ELSE {e \in DOMAIN employee : e = p.employee \/ employee[e].managerId = p.employee}

\* C1: a request of an authenticated principal whose role is outside the
\* set its route passes to authorize is taken no further than the role
\* check and ends Forbidden, whatever its params, query or body; it makes
\* no database write and no audit entry and meets no handler step.
C1_RoleGateForbids ==
  \A r \in ReqIds :
    LET q == reqs[r] IN
      (Declares(q.op, "authorize") /\ q.user.id # 0 /\ q.user.role \notin AllowedRoles(q.op)) =>
        /\ q.pc \in {"authorize", "done"}
        /\ Done(q) => q.resp = "Forbidden"
        /\ q.writes = 0 /\ EntriesOf(r) = {} /\ ~q.fault

\* HR turned away from POST /api/settings with a malformed body, and a
\* MANAGER from POST /api/leave-balances, nothing written.
C1_Witness ==
  \E r, r2 \in ReqIds :
    /\ reqs[r].op = "settings.post" /\ reqs[r].user.role = "HR" /\ ~reqs[r].body.ok
    /\ reqs[r].resp = "Forbidden"
    /\ reqs[r2].op = "leaveBalances.post" /\ reqs[r2].user.role = "MANAGER"
    /\ reqs[r2].resp = "Forbidden"
    /\ db = InitDb /\ auditLog = <<>>

\* C2: a request with an absent or invalid credential to a route that
\* declares an allowed-role set is taken no further than authenticate and
\* ends Unauthenticated: no principal is resolved, no later middleware and
\* no handler step runs, nothing is written and no audit entry is made.
C2_NoCredentialUnauthenticated ==
  \A r \in ReqIds :
    LET q == reqs[r] IN
      (Declares(q.op, "authorize") /\ q.cred \notin UserIds) =>
        /\ q.pc \in {"authenticate", "done"}
        /\ Done(q) => q.resp = "Unauthenticated"
        /\ q.user = NoUser
        /\ q.writes = 0 /\ EntriesOf(r) = {} /\ ~q.fault

\* An invalid token on GET /api/employees and no token on GET /api/settings.
C2_Witness ==
  \E r, r2 \in ReqIds :
    /\ reqs[r].op = "employees.list" /\ reqs[r].cred = -1 /\ reqs[r].resp = "Unauthenticated"
    /\ reqs[r2].op = "settings.list" /\ reqs[r2].cred = 0 /\ reqs[r2].resp = "Unauthenticated"
    /\ db = InitDb /\ auditLog = <<>>

\* C3 (as stated): a MANAGER with a linked employee record reads an employee
\* through the list endpoint, and through the detail endpoint, exactly when
\* the employee is the manager or a direct report: every row a list query
\* returns is in that set, an unfiltered list query whose page holds the
\* whole set returns all of it, and the detail gate admits exactly that set.
C3_ManagerListAndDetailAgree ==
  [][\A r \in ReqIds :
       LET q == reqs[r]
           q2 == reqs'[r]
       IN (q.user.role = "MANAGER" /\ q.user.employee # 0) =>
            /\ (q.op = "employees.list" /\ q.pc = "h2" /\ q2.pc = "h3") =>
                 /\ q2.out \subseteq ManagerScope(q.user)
                 /\ (q.body.employmentStatus = "" /\ q.body.limit >= Cardinality(ManagerScope(q.user)))
                      => q2.out = ManagerScope(q.user)
            /\ (q.op = "employees.get" /\ q.pc = "authorizeEmployee" /\ q2.pc # q.pc) =>
                 (q2.pc # "done" <=> q.id \in ManagerScope(q.user))]_vars

\* The list handler of the MANAGER linked to employee 1 went on after its
\* subordinate lookup had failed and returned employee 3, two hops below.
C3_Witness ==
  \E r \in ReqIds :
    LET q == reqs[r] IN
      /\ q.op = "employees.list" /\ q.user.role = "MANAGER" /\ q.user.employee = 1
      /\ q.fault /\ q.resp = "OK" /\ 3 \in q.out /\ employee[3].managerId = 2

\* The employee id a read names explicitly: the employeeId filter of a list,
\* the target of a detail read.
Target(q) == IF q.op \in {"leaveBalances.list", "trainingRecords.list"}
             THEN q.body.employeeId ELSE q.id

\* C4 (as stated): a read in which an EMPLOYEE with a linked employee
\* record names another employee's id, as the employeeId filter of a list
\* or as the target of a detail read, and that met no database error, ends
\* Forbidden.
C4_EmployeeOtherIdForbidden ==
  \A r \in ReqIds :
    LET q == reqs[r] IN
      ( /\ q.op \in {"leaveBalances.list", "trainingRecords.list", "employeeController.getEmployee"}
        /\ q.user.role = "EMPLOYEE" /\ q.user.employee # 0
        /\ Target(q) \in DOMAIN employee /\ Target(q) # q.user.employee
        /\ Done(q) /\ ~q.fault ) =>
        q.resp = "Forbidden"

\* The filter rewritten: the EMPLOYEE linked to employee 2 asked for the
\* balances of employee 1 and was served its own balance.
C4_Witness ==
  \E r \in ReqIds :
    LET q == reqs[r] IN
      /\ q.op = "leaveBalances.list" /\ q.user.role = "EMPLOYEE" /\ q.user.employee = 2
      /\ q.body.employeeId = 1 /\ q.resp = "OK"
      /\ q.out = {b \in DOMAIN leaveBalance : leaveBalance[b].employeeId = 2}

\* C5 (as stated): when the leave-balance list handler of a MANAGER's
\* request with an explicit employeeId settles the scope without a database
\* error, the request ends Forbidden if the id is outside {self} and the
\* direct reports, and otherwise goes on restricted to that id; the query
\* of such a request returns balances of that employee only.
C5_ManagerExplicitFilter ==
  [][\A r \in ReqIds :
       LET q == reqs[r]
           q2 == reqs'[r]
       IN (q.op = "leaveBalances.list" /\ q.user.role = "MANAGER" /\ q.body.employeeId # 0) =>
            /\ (q.pc = "h1" /\ q2.pc # "h1" /\ ~q2.fault) =>
                 IF q.body.employeeId \in ManagerScope(q.user)
                 THEN q2.pc = "h2" /\ q2.scoped /\ q2.subs = {q.body.employeeId}
                 ELSE q2.resp = "Forbidden"
            /\ (q.pc = "h2" /\ q2.pc = "h3") =>
                 q2.out = {b \in DOMAIN leaveBalance : leaveBalance[b].employeeId = q.body.employeeId}
     ]_vars

\* A MANAGER account without a linked employee record was served the
\* balance of employee 1.
C5_Witness ==
  \E r \in ReqIds :
    LET q == reqs[r] IN
      /\ q.op = "leaveBalances.list" /\ q.user.role = "MANAGER" /\ q.user.employee = 0
      /\ q.body.employeeId = 1 /\ q.resp = "OK" /\ q.out = {1}

\* The action kind and the resource name of a mutating route.
Kind(op) ==
  CASE op \in {"employees.post", "settings.post", "leaveBalances.post", "jobApplications.post"} -> "CREATE"
    [] op = "employees.put" -> "UPDATE"
    [] OTHER -> "DELETE"

Resource(op) ==
  CASE op \in EmployeeOps -> "employees"
    [] op \in SettingOps -> "settings"
    [] op \in LeaveBalanceOps -> "leave_balances"
    [] OTHER -> "job_applications"

\* C6 (as stated): a mutating request that ended with a success response,
\* and whose audit write (if any) did not fail, has exactly one audit
\* entry; its action is the operation kind, its resource and id are the
\* target's and its after-snapshot is the row the operation persisted.
C6_SuccessfulMutationHasOneEntry ==
  \A r \in ReqIds :
    LET q == reqs[r] IN
      (Mutating(q.op) /\ Succeeded(q) /\ ~q.auditFailed) =>
        /\ Cardinality(EntriesOf(r)) = 1
        /\ \A i \in EntriesOf(r) :
             /\ auditLog[i].action = Kind(q.op)
             /\ auditLog[i].resource = Resource(q.op)
             /\ auditLog[i].resourceId = q.id
             /\ auditLog[i].after = q.row

\* A stored job application, answered 201, with an empty audit log.
C6_Witness ==
  \E r \in ReqIds :
    LET q == reqs[r] IN
      /\ q.op = "jobApplications.post" /\ q.resp = "Created"
      /\ q.id \in DOMAIN jobApplication /\ auditLog = <<>>

\* C7: a mutating request that ended with an error response (validation
\* error, not found, forbidden, unauthenticated, or a database error at any
\* step of its handler) has written no audit entry.
C7_FailedMutationWritesNoAudit ==
  \A r \in ReqIds : (Mutating(reqs[r].op) /\ Failed(reqs[r])) => EntriesOf(r) = {}

\* A delete that committed the employee update and then failed on the
\* account update.
C7_Witness ==
  \E r \in ReqIds :
    /\ reqs[r].op = "employees.delete" /\ reqs[r].resp = "ServerError"
    /\ reqs[r].writes = 1 /\ EntriesOf(r) = {}

C9_CommitThenLog ==
  \A i \in DOMAIN auditLog :
    LET q == reqs[auditLog[i].req] IN
      auditLog[i].action # "READ" => q.writes = WritesNeeded(q)

\* An UPDATE entry whose after-snapshot is the stored row, and a DELETE
\* entry of a leave balance that is gone.
C9_Witness ==
  \E i, j \in DOMAIN auditLog :
    /\ auditLog[i].action = "UPDATE" /\ employee[auditLog[i].resourceId] = auditLog[i].after
    /\ auditLog[j].action = "DELETE" /\ auditLog[j].resource = "leave_balances"
    /\ auditLog[j].resourceId \notin DOMAIN leaveBalance

C11_ManagerListSubset ==
  [][\A r \in ReqIds :
       LET q == reqs[r]
           q2 == reqs'[r]
           inScope == {e \in ManagerScope(q.user) :
                         q.body.employmentStatus # "" =>
                           employee[e].employmentStatus = q.body.employmentStatus}
       IN ( /\ q.op = "employees.list" /\ q.user.role = "MANAGER" /\ q.user.employee # 0
            /\ q.scoped => q.subs = ManagerScope(q.user)
            /\ q.pc = "h2" /\ q2.pc = "h3" ) =>
            /\ q2.out \subseteq inScope
            /\ q2.total = Cardinality(inScope)]_vars

\* The list answered to the MANAGER linked to employee 1 reports a total
\* larger than the manager's own set.
C11_Witness ==
  \E r \in ReqIds :
    LET q == reqs[r] IN
      /\ q.op = "employees.list" /\ q.user.role = "MANAGER" /\ q.user.employee = 1
      /\ q.resp = "OK" /\ q.total > Cardinality(ManagerScope(q.user))
      /\ q.total = Cardinality(DOMAIN employee)

\* C12 (as stated): a detail read in which a MANAGER with a linked employee
\* record names an existing employee that is neither the manager nor a
\* direct report, and that met no database error, ends Forbidden.
C12_ManagerOutOfScopeDetailForbidden ==
  \A r \in ReqIds :
    LET q == reqs[r] IN
      ( /\ q.op \in {"employees.get", "employeeController.getEmployee"}
        /\ q.user.role = "MANAGER" /\ q.user.employee # 0
        /\ q.id \in DOMAIN employee /\ q.id \notin ManagerScope(q.user)
        /\ Done(q) /\ ~q.fault ) =>
        q.resp = "Forbidden"

\* The service answered NotFound to the MANAGER linked to employee 1 for
\* employee 3, who exists and reports to employee 2.
C12_Witness ==
  \E r \in ReqIds :
    LET q == reqs[r] IN
      /\ q.op = "employeeController.getEmployee" /\ q.user.role = "MANAGER"
      /\ q.user.employee = 1 /\ q.id = 3 /\ employee[3].managerId = 2
      /\ q.resp = "NotFound"

\* C13: every access-control rejection (Unauthenticated, or Forbidden for a
\* role or a scope violation) is issued before any data access on the target
\* resource: a request that ended with such a rejection has loaded no row
\* of the resource it addressed.
C13_RejectionBeforeDataAccess ==
  \A r \in ReqIds :
    LET q == reqs[r]
    IN (Done(q) /\ q.resp \in {"Unauthenticated", "Forbidden"}) => q.existing = Null

\* An EMPLOYEE asked for another employee's training record: the handler ran,
\* read the record from the database and only then answered Forbidden.
C13_Witness ==
  \E r \in ReqIds :
    LET q == reqs[r]
    IN /\ q.op = "trainingRecords.get" /\ q.user.role = "EMPLOYEE"
       /\ Done(q) /\ q.resp = "Forbidden"
       /\ Chain(q.op)[q.stage] = "handler"
       /\ q.existing = trainingRecord[q.id]

\* C15: on the leave-balance detail endpoint a MANAGER asking for a balance
\* whose owner is neither the manager nor a direct report is answered
\* Forbidden.
C15_ManagerOutOfScopeBalanceForbidden ==
  \A r \in ReqIds :
    LET q == reqs[r]
    IN ( /\ q.op = "leaveBalances.get" /\ q.user.role = "MANAGER" /\ q.user.employee # 0
         /\ q.id \in DOMAIN leaveBalance
         /\ leaveBalance[q.id].employeeId \notin ManagerScope(q.user)
         /\ Done(q) /\ ~q.fault ) => q.resp = "Forbidden"

\* Manager 1 (direct report: employee 2) read the balance of employee 3.
C15_Witness ==
  \E r \in ReqIds :
    LET q == reqs[r]
    IN /\ q.op = "leaveBalances.get" /\ q.user.role = "MANAGER" /\ q.user.employee = 1
       /\ q.id = 3 /\ leaveBalance[3].employeeId = 3
       /\ 3 \notin ManagerScope(q.user)
       /\ Done(q) /\ q.resp = "OK" /\ q.out = {3}

C16_ManagerNotSelf == \A e \in DOMAIN employee : employee[e].managerId # e

\* An update through the employee service set employee 2's manager to
\* employee 2 and was answered with success.
C16_Witness ==
  \E r \in ReqIds :
    LET q == reqs[r]
    IN /\ q.op = "employeeController.updateEmployee" /\ q.id = 2 /\ q.body.managerId = 2
       /\ Succeeded(q) /\ employee[2].managerId = 2

\* C17: employeeId and email are unique: in every reachable state, under
\* concurrent creates and updates, no two employee records share an
\* employeeId or an email, and a request that would create a duplicate fails
\* with a validation error: when no database error was injected, no
\* request ends with a server error.
C17_UniqueAndDuplicateRejected ==
  /\ \A e1, e2 \in DOMAIN employee :
       e1 # e2 => /\ employee[e1].employeeId # employee[e2].employeeId
                  /\ employee[e1].email # employee[e2].email
  /\ faultsLeft = MaxFaults =>
       \A r \in ReqIds : Done(reqs[r]) => reqs[r].resp # "ServerError"

\* An update through the employee service that names employee 1's
\* employeeId for employee 2 ended with a server error although no database
\* error was injected; the stored employeeIds are still distinct.
C17_Witness ==
  /\ faultsLeft = MaxFaults
  /\ employee[2].employeeId = 2
  /\ \E r \in ReqIds :
       LET q == reqs[r]
       IN /\ q.op = "employeeController.updateEmployee" /\ q.id = 2 /\ q.body.employeeId = 1
          /\ Done(q) /\ q.resp = "ServerError"

\* The policy has a leave request that is PENDING or APPROVED.
HasOpenRequest(p) ==
  \E l \in DOMAIN leaveRequest :
    leaveRequest[l].policyId = p /\ leaveRequest[l].status \in {"PENDING", "APPROVED"}

\* C18: a leave policy with a PENDING or APPROVED leave request cannot be
\* deleted: the DELETE of an authorized caller fails with a validation error,
\* the policy stays as it was and no audit entry is written; any other
\* delete that succeeds only sets isActive to false, and no policy row is
\* ever removed.
C18_PolicyDelete ==
  /\ DOMAIN leavePolicy = DOMAIN InitLeavePolicies
  /\ \A p \in DOMAIN leavePolicy : HasOpenRequest(p) => leavePolicy[p] = InitLeavePolicies[p]
  /\ \A r \in ReqIds :
       LET q == reqs[r]
       IN (q.op = "leavePolicies.delete" /\ Done(q)) =>
            /\ ( /\ q.id \in DOMAIN leavePolicy /\ HasOpenRequest(q.id)
                 /\ q.resp \notin {"Unauthenticated", "Forbidden"} /\ ~q.fault ) =>
                 /\ q.resp = "ValidationFailed"
                 /\ q.writes = 0
                 /\ EntriesOf(r) = {}
            /\ Succeeded(q) =>
                 /\ ~HasOpenRequest(q.id)
                 /\ leavePolicy[q.id] = [q.existing EXCEPT !.isActive = FALSE]
                 /\ q.writes = 1

\* HR was refused the delete of policy 3 for its APPROVED request while ADMIN
\* soft-deleted policy 2, whose only request is REJECTED.
C18_Witness ==
  \E r1, r2 \in ReqIds :
    /\ reqs[r1].op = "leavePolicies.delete" /\ reqs[r1].id = 3
    /\ reqs[r1].resp = "ValidationFailed" /\ leavePolicy[3].isActive
    /\ reqs[r2].op = "leavePolicies.delete" /\ reqs[r2].id = 2
    /\ Succeeded(reqs[r2]) /\ ~leavePolicy[2].isActive
    /\ \E i \in EntriesOf(r2) : auditLog[i].action = "DELETE" /\ auditLog[i].resourceId = 2

\* C19: DELETE /api/employees/:id terminates the employee and deactivates
\* the linked user account as one outcome: once the request has ended, with
\* success or with an error, it is not the case that it set the employee to
\* TERMINATED while the linked account is still active.
C19_TerminateAndDeactivateTogether ==
  \A r \in ReqIds :
    LET q == reqs[r]
    IN ( /\ q.op = "employees.delete" /\ Done(q)
         /\ q.writes >= 1 /\ q.existing.userId # 0 ) => ~user[q.existing.userId]

\* The delete of employee 2 committed the status update, the update of the
\* account was rejected and the request ended with a server error: employee
\* 2 is TERMINATED and account 4 can still sign in.
C19_Witness ==
  \E r \in ReqIds :
    LET q == reqs[r]
    IN /\ q.op = "employees.delete" /\ q.id = 2 /\ Done(q) /\ q.resp = "ServerError"
       /\ employee[2].employmentStatus = "TERMINATED"
       /\ employee[2].userId = 4 /\ user[4]

\* The stored balance is consistent.
Consistent(row) == row.remaining = row.allocated + row.carryForward - row.used

\* C20: with the POST and PUT requests on /api/leave-balances executed one
\* after the other, every stored balance satisfies remaining = allocated +
\* carryForward - used; a created balance has used = 0, and an updated
\* balance holds the supplied fields, whichever subset of allocated, used
\* and carryForward the PUT supplies.
C20_RemainingConsistent ==
  /\ \A b \in DOMAIN leaveBalance : Consistent(leaveBalance[b])
  /\ \A r \in ReqIds :
       LET q == reqs[r]
       IN /\ (q.op = "leaveBalances.post" /\ Succeeded(q)) =>
               /\ q.row.used = 0 /\ Consistent(q.row)
               /\ q.row.allocated = q.body.allocated
               /\ q.row.carryForward = q.body.carryForward
          /\ (q.op = "leaveBalances.put" /\ Succeeded(q)) =>
               /\ Consistent(q.row)
               /\ q.body.allocated # Undefined => q.row.allocated = q.body.allocated
               /\ q.body.used # Undefined => q.row.used = q.body.used
               /\ q.body.carryForward # Undefined => q.row.carryForward = q.body.carryForward

\* A balance created with allocated 3 and carryForward 1 was then updated
\* with used = 4 alone: the stored row keeps 3 and 1 and has remaining 0.
C20_Witness ==
  \E r1, r2 \in ReqIds :
    /\ reqs[r1].op = "leaveBalances.post" /\ Succeeded(reqs[r1])
    /\ reqs[r1].body.allocated = 3 /\ reqs[r1].body.carryForward = 1
    /\ reqs[r2].op = "leaveBalances.put" /\ Succeeded(reqs[r2])
    /\ reqs[r2].id = reqs[r1].id
    /\ reqs[r2].body.used = 4
    /\ reqs[r2].body.allocated = Undefined /\ reqs[r2].body.carryForward = Undefined
    /\ leaveBalance[reqs[r2].id].allocated = 3
    /\ leaveBalance[reqs[r2].id].carryForward = 1
    /\ leaveBalance[reqs[r2].id].used = 4
    /\ leaveBalance[reqs[r2].id].remaining = 0

\* C21: remaining = allocated + carryForward - used holds for every stored
\* balance in every state reachable when PUT requests on the same record
\* interleave.
C21_RemainingConsistentInterleaved ==
  \A b \in DOMAIN leaveBalance :
    leaveBalance[b].remaining =
      leaveBalance[b].allocated + leaveBalance[b].carryForward - leaveBalance[b].used

\* Both updates of balance 1 succeeded, one setting allocated to 3 and the
\* other used to 1; the stored remaining is not 3 + 0 - 1.
C21_Witness ==
  \E r1, r2 \in ReqIds :
    /\ reqs[r1].op = "leaveBalances.put" /\ Succeeded(reqs[r1]) /\ reqs[r1].body.allocated = 3
    /\ reqs[r2].op = "leaveBalances.put" /\ Succeeded(reqs[r2]) /\ reqs[r2].body.used = 1
    /\ leaveBalance[1].allocated = 3 /\ leaveBalance[1].used = 1
    /\ leaveBalance[1].carryForward = 0
    /\ leaveBalance[1].remaining # 2

\* C22: at most one leave balance exists per (employeeId, policyId, year),
\* also under concurrent creates of the same triple, and the second create
\* fails with a validation error: when no database error was injected, no
\* create ends with a server error.
C22_OneBalancePerTriple ==
  /\ \A b1, b2 \in DOMAIN leaveBalance :
       ( /\ leaveBalance[b1].employeeId = leaveBalance[b2].employeeId
         /\ leaveBalance[b1].policyId = leaveBalance[b2].policyId
         /\ leaveBalance[b1].year = leaveBalance[b2].year ) => b1 = b2
  /\ faultsLeft = MaxFaults =>
       \A r \in ReqIds :
         (reqs[r].op = "leaveBalances.post" /\ Done(reqs[r])) => reqs[r].resp # "ServerError"

\* Both creates for employee 1, policy 2, year 2024 were answered Created and
\* two balances of that triple are stored.
C22_Witness ==
  /\ \A r \in ReqIds : reqs[r].op = "leaveBalances.post" /\ reqs[r].resp = "Created"
  /\ \E b1, b2 \in DOMAIN leaveBalance :
       /\ b1 # b2
       /\ leaveBalance[b1].employeeId = 1 /\ leaveBalance[b2].employeeId = 1
       /\ leaveBalance[b1].policyId = 2 /\ leaveBalance[b2].policyId = 2
       /\ leaveBalance[b1].year = 2024 /\ leaveBalance[b2].year = 2024

\* The postings the public may see: OPEN and not expired, those with no
\* expiry date included.
PublicPostings ==
  {p \in DOMAIN jobPosting :
     /\ jobPosting[p].status = "OPEN"
     /\ (jobPosting[p].expiresAt = NoExpiry \/ jobPosting[p].expiresAt >= Now)}

\* C24: for a caller with no resolved principal the public list (no caller
\* filter, all pages) and the public detail expose the same set: the list
\* returns exactly the OPEN postings that have not expired, those with no
\* expiry date included, and the detail answers a posting exactly when it
\* is one of them.
C24_PublicListEqualsDetail ==
  \A r \in ReqIds :
    LET q == reqs[r]
    IN /\ (q.op = "jobPostings.list" /\ Succeeded(q) /\ q.body.limit >= Cardinality(DOMAIN jobPosting))
            => q.out = PublicPostings
       /\ (q.op = "jobPostings.get" /\ Done(q) /\ ~q.fault)
            => (q.resp = "OK" <=> q.id \in PublicPostings)

\* The public detail answered posting 1 (OPEN, no expiry date) while the
\* public list, answered in full, left it out.
C24_Witness ==
  \E r1, r2 \in ReqIds :
    /\ reqs[r1].op = "jobPostings.get" /\ reqs[r1].id = 1 /\ reqs[r1].resp = "OK"
    /\ reqs[r2].op = "jobPostings.list" /\ reqs[r2].resp = "OK" /\ reqs[r2].body.limit = 10
    /\ 1 \notin reqs[r2].out /\ reqs[r2].out = {4}
    /\ jobPosting[1].status = "OPEN" /\ jobPosting[1].expiresAt = NoExpiry

C25_SalaryRangeOrdered ==
  \A p \in DOMAIN jobPosting :
    (jobPosting[p].salaryMin # Undefined /\ jobPosting[p].salaryMax # Undefined)
      => jobPosting[p].salaryMin <= jobPosting[p].salaryMax

\* A PUT that supplied salaryMax = 0 alone for posting 1 (salaryMin 1) was
\* answered with success and the posting is stored with the range 1..0.
C25_Witness ==
  \E r \in ReqIds :
    LET q == reqs[r]
    IN /\ q.op = "jobPostings.put" /\ q.id = 1 /\ Succeeded(q)
       /\ q.body.salaryMax = 0 /\ q.body.salaryMin = Undefined
       /\ jobPosting[1].salaryMin = 1 /\ jobPosting[1].salaryMax = 0

\* C26: in every state reachable by POST and PUT on /api/offboarding-tasks,
\* interleaved PUT requests on one task included, a task has isCompleted =
\* true if and only if its completedAt is non-null.
C26_CompletedIffCompletedAt ==
  \A t \in DOMAIN offboardingTask :
    offboardingTask[t].isCompleted <=> offboardingTask[t].completedAt # NoDate

\* Both updates of the completed task 2 succeeded, one with isCompleted
\* true and one with isCompleted false; the task is stored completed with
\* no completedAt.
C26_Witness ==
  \E r1, r2 \in ReqIds :
    /\ reqs[r1].op = "offboardingTasks.put" /\ reqs[r1].id = 2 /\ Succeeded(reqs[r1])
    /\ reqs[r1].body.isCompleted = "true"
    /\ reqs[r2].op = "offboardingTasks.put" /\ reqs[r2].id = 2 /\ Succeeded(reqs[r2])
    /\ reqs[r2].body.isCompleted = "false"
    /\ offboardingTask[2].isCompleted /\ offboardingTask[2].completedAt = NoDate

\* C27: GET /api/employees fails closed for a MANAGER: whether the
\* subordinate lookup throws or the principal has no linked employee
\* record, the rows the query hands to the response lie within the manager
\* and the direct reports (as the database holds them at the query, or as
\* the lookup returned them); the request errors or returns a restricted
\* set, never the unrestricted list.
C27_ManagerListFailsClosed ==
  [][\A r \in ReqIds :
       LET q == reqs[r]
           q2 == reqs'[r]
       IN ( /\ q.op = "employees.list" /\ q.user.role = "MANAGER"
            /\ q.pc = "h2" /\ q2.pc = "h3" ) =>
            q2.out \subseteq (ManagerScope(q.user) \cup (IF q.scoped THEN q.subs ELSE {}))]_vars

\* The MANAGER account with no linked employee record is answered OK with
\* every employee of the database.
C27_Witness ==
  \E r \in ReqIds :
    LET q == reqs[r] IN
      /\ q.op = "employees.list" /\ q.user.role = "MANAGER" /\ q.user.employee = 0
      /\ q.resp = "OK" /\ ~q.fault
      /\ q.out = DOMAIN employee

\* C28: a list of leave balances, training records or onboarding tasks
\* answered to an EMPLOYEE principal that has no linked employee record is
\* empty or an error, whatever filters were passed.
C28_UnlinkedEmployeeListsEmpty ==
  \A r \in ReqIds :
    LET q == reqs[r] IN
      ( /\ q.op \in {"leaveBalances.list", "trainingRecords.list", "onboardingTasks.list"}
        /\ q.user.role = "EMPLOYEE" /\ q.user.employee = 0
        /\ Done(q) /\ Succeeded(q) ) =>
        q.out = {}

\* The EMPLOYEE account with no employee record is answered OK with every
\* onboarding task although it asked for employee 2, and with the leave
\* balances of employee 3.
C28_Witness ==
  \E r1, r2 \in ReqIds :
    /\ reqs[r1].op = "onboardingTasks.list" /\ reqs[r1].user.role = "EMPLOYEE"
    /\ reqs[r1].user.employee = 0 /\ reqs[r1].body.employeeId = 2
    /\ Succeeded(reqs[r1]) /\ reqs[r1].out = DOMAIN onboardingTask
    /\ reqs[r2].op = "leaveBalances.list" /\ reqs[r2].user.role = "EMPLOYEE"
    /\ reqs[r2].user.employee = 0 /\ reqs[r2].body.employeeId = 3
    /\ Succeeded(reqs[r2]) /\ reqs[r2].out = {3}

\* C29: in every state reachable by POST, PUT and DELETE requests on
\* /api/employees, in any order and interleaving, no employee whose status
\* is TERMINATED is the manager of an employee whose status is ACTIVE.
C29_NoTerminatedManagerOfActive ==
  \A e \in DOMAIN employee :
    LET m == employee[e].managerId IN
      (m \in DOMAIN employee /\ employee[m].employmentStatus = "TERMINATED") =>
        employee[e].employmentStatus # "ACTIVE"

\* One PUT with employmentStatus TERMINATED on employee 1 has succeeded and
\* nothing else was written: employee 1 is TERMINATED and still the
\* manager of the ACTIVE employee 2.
C29_Witness ==
  \E r \in ReqIds :
    /\ reqs[r].op = "employees.put" /\ reqs[r].id = 1
    /\ reqs[r].body.employmentStatus = "TERMINATED" /\ Succeeded(reqs[r])
    /\ \A r2 \in ReqIds \ {r} : reqs[r2].writes = 0
    /\ employee[1].employmentStatus = "TERMINATED"
    /\ employee[2].managerId = 1 /\ employee[2].employmentStatus = "ACTIVE"

====
